---- MODULE Spec2Model ----
(***************************************************************************)
(* Metric Hub (metric-hub/cmd/api.go, metric-hub/internal/aggregator.go,   *)
(* types.go, validator.go, queue/redis-queue.go).                          *)
(*                                                                         *)
(* Two HTTP handlers decode and validate a cost or a forecast payload,     *)
(* touch the Redis store once (SET cost:latest or GET cost:latest) and     *)
(* spawn a goroutine that evaluates thresholds per deployment and pushes   *)
(* AgentJobs on the list queue:agent:jobs.  Cost-derived jobs are gated by *)
(* trigger:cooldown:<name>; forecast-derived jobs are not.                 *)
(*                                                                         *)
(* Quantities (cores, MB) are integers in some fixed unit; the float       *)
(* comparisons of the source (x/r > 0.5, p > r*0.9) are evaluated exactly  *)
(* by cross-multiplication.  Strings stored in Redis are sequences of      *)
(* one-character strings; JSON objects are records keyed by the json tags. *)
(***************************************************************************)
EXTENDS Integers, Sequences, FiniteSets, TLC

\* ------------------------------------------------------------------ bounds
MaxReq == 2          \* HTTP requests received in one run
MaxTicks == 2        \* clock advances in one run
TickSecs == 900      \* seconds per clock advance
MaxFaults == 1       \* store operations that fail in one run

\* ------------------------------------------------------- program constants
CooldownSecs == 1800
StatusCreated == 201
StatusBadRequest == 400
StatusInternalServerError == 500
HighWastePct == 50
HighUtilPct == 85
CapacityRiskTenths == 9
SafeDownscaleTenths == 6
DownscaleWasteTenths == 4

Reqs == 1..MaxReq

\* --------------------------------------------------------------- data model
\* A Go *Resources pointer: <<>> is nil, <<r>> points to r.
NilPtr == <<>>

Resources(c, m) == [CPUCores |-> c, MemoryMB |-> m]

CostDeployment(n, rq, us, pp) ==
  [Name |-> n, CurrentRequests |-> rq, CurrentUsage |-> us, PredictPeak24h |-> pp]

ForecastDeployment(n, pp) == [Name |-> n, PredictPeak24h |-> pp]

ClusterInfo(v, c) == [VmCount |-> v, Cost |-> c]

CostPayload(ts, ns, ci, ds) ==
  [Timestamp |-> ts, Namespace |-> ns, ClusterInfo |-> ci, Deployments |-> ds]

ForecastPayload(ts, ns, ds) ==
  [Timestamp |-> ts, Namespace |-> ns, Deployments |-> ds]

AgentJob(rs, ns, d, ci) ==
  [Reason |-> rs, Namespace |-> ns, Deployment |-> d, ClusterInfo |-> ci]

\* the zero time.Time, which the `required` tag rejects
ZeroTime == ""

\* -------------------------------------------------------------- validation
\* validate:"required,gt=0" on both fields of Resources
ValidateResources(r) == r.CPUCores > 0 /\ r.MemoryMB > 0

\* a nil pointer field is not descended into; a non-nil one is validated
ValidatePtrResources(p) == p = NilPtr \/ ValidateResources(p[1])

ValidateCostDeployment(d) ==
  /\ d.Name # ""
  /\ ValidateResources(d.CurrentRequests)
  /\ ValidateResources(d.CurrentUsage)
  /\ ValidatePtrResources(d.PredictPeak24h)

ValidateForecastDeployment(d) ==
  /\ d.Name # ""
  /\ ValidateResources(d.PredictPeak24h)

ValidateClusterInfo(c) == c.VmCount > 0 /\ c.Cost > 0

\* ValidateCostPayload without the eq=default tag on Namespace
ValidateCostPayload_AnyNamespace(p) ==
  /\ p.Timestamp # ZeroTime
  /\ p.Namespace # ""
  /\ ValidateClusterInfo(p.ClusterInfo)
  /\ Len(p.Deployments) >= 1
  /\ \A i \in 1..Len(p.Deployments) : ValidateCostDeployment(p.Deployments[i])

\* CostPayload validation without the dive into the deployments
ValidateCostPayload_NoDive(p) ==
  /\ p.Timestamp # ZeroTime
  /\ p.Namespace = "default"
  /\ ValidateClusterInfo(p.ClusterInfo)
  /\ Len(p.Deployments) >= 1

ValidateCostPayload(p) ==
  /\ p.Timestamp # ZeroTime
  /\ p.Namespace = "default"
  /\ ValidateClusterInfo(p.ClusterInfo)
  /\ Len(p.Deployments) >= 1
  /\ \A i \in 1..Len(p.Deployments) : ValidateCostDeployment(p.Deployments[i])

ValidateForecastPayload(p) ==
  /\ p.Timestamp # ZeroTime
  /\ p.Namespace = "default"
  /\ Len(p.Deployments) >= 1
  /\ \A i \in 1..Len(p.Deployments) : ValidateForecastDeployment(p.Deployments[i])

\* ------------------------------------------------------------ JSON codecs
ResourcesJSON(r) == [cpu_cores |-> r.CPUCores, memory_mb |-> r.MemoryMB]

ResourcesFromJSON(j) == Resources(j.cpu_cores, j.memory_mb)

\* predicted_peak_24h carries omitempty: a nil pointer leaves the key out
CostDeploymentJSON(d) ==
  IF d.PredictPeak24h = NilPtr
  THEN [name |-> d.Name,
        current_requests |-> ResourcesJSON(d.CurrentRequests),
        current_usage |-> ResourcesJSON(d.CurrentUsage)]
  ELSE [name |-> d.Name,
        current_requests |-> ResourcesJSON(d.CurrentRequests),
        current_usage |-> ResourcesJSON(d.CurrentUsage),
        predicted_peak_24h |-> ResourcesJSON(d.PredictPeak24h[1])]

CostDeploymentFromJSON(j) ==
  CostDeployment(j.name,
                 ResourcesFromJSON(j.current_requests),
                 ResourcesFromJSON(j.current_usage),
                 IF "predicted_peak_24h" \in DOMAIN j
                 THEN <<ResourcesFromJSON(j.predicted_peak_24h)>>
                 ELSE NilPtr)

ClusterInfoJSON(c) == [vm_count |-> c.VmCount, current_hourly_cost |-> c.Cost]

ClusterInfoFromJSON(j) == ClusterInfo(j.vm_count, j.current_hourly_cost)

\* json.Marshal(p) for p *CostPayload
MarshalCostPayload(p) ==
  [timestamp |-> p.Timestamp,
   namespace |-> p.Namespace,
   cluster_info |-> ClusterInfoJSON(p.ClusterInfo),
   deployments |-> [i \in 1..Len(p.Deployments) |->
                      CostDeploymentJSON(p.Deployments[i])]]

\* json.Unmarshal into a CostPayload
UnmarshalCostPayload(j) ==
  CostPayload(j.timestamp, j.namespace, ClusterInfoFromJSON(j.cluster_info),
              [i \in 1..Len(j.deployments) |->
                 CostDeploymentFromJSON(j.deployments[i])])

ForecastDeploymentFromJSON(j) ==
  ForecastDeployment(j.name, ResourcesFromJSON(j.predicted_peak_24h))

UnmarshalForecastPayload(j) ==
  ForecastPayload(j.timestamp, j.namespace,
                  [i \in 1..Len(j.deployments) |->
                     ForecastDeploymentFromJSON(j.deployments[i])])

\* json.Marshal(job) for an AgentJob; the deployment travels under the key
\* "deployments"
MarshalAgentJob(job) ==
  [reason |-> job.Reason,
   namespace |-> job.Namespace,
   deployments |-> CostDeploymentJSON(job.Deployment),
   cluster_info |-> ClusterInfoJSON(job.ClusterInfo)]

\* ------------------------------------------- decimal strings (cooldown value)
Digits == <<"0", "1", "2", "3", "4", "5", "6", "7", "8", "9">>

RECURSIVE FormatInt(_)
\* strconv-style base-10 rendering of a non-negative int64
FormatInt(n) ==
  IF n < 10 THEN <<Digits[n + 1]>>
  ELSE FormatInt(n \div 10) \o <<Digits[(n % 10) + 1]>>

DigitValue(c) == CHOOSE k \in 0..9 : Digits[k + 1] = c

IsDigit(c) == \E k \in 0..9 : Digits[k + 1] = c

\* strconv.ParseInt(s, 10, 64) succeeds
ParseIntOk(s) == Len(s) >= 1 /\ \A i \in 1..Len(s) : IsDigit(s[i])

RECURSIVE ParseInt(_)
ParseInt(s) ==
  IF Len(s) = 0 THEN 0
  ELSE 10 * ParseInt(SubSeq(s, 1, Len(s) - 1)) + DigitValue(s[Len(s)])

\* ------------------------------------------------------ threshold arithmetic
\* (req - use) / req > pct/100, with waste left at 0 when req is not positive
WasteOver(req, use, pct) == req > 0 /\ (req - use) * 100 > pct * req

\* use / req > pct/100, with util left at 0 when req is not positive
UtilOver(req, use, pct) == req > 0 /\ use * 100 > pct * req

NoReason == "none"

\* CostReason with the CPU checks ahead of the memory risk check
CostReason_CpuBeforeMemoryRisk(d) ==
  LET reqCpu == d.CurrentRequests.CPUCores
      useCpu == d.CurrentUsage.CPUCores
      reqMem == d.CurrentRequests.MemoryMB
      useMem == d.CurrentUsage.MemoryMB
  IN  IF reqCpu = 0 \/ reqMem = 0 THEN NoReason
      ELSE IF WasteOver(reqMem, useMem, HighWastePct) THEN "High Memory Waste"
      ELSE IF WasteOver(reqCpu, useCpu, HighWastePct) THEN "High CPU Waste"
      ELSE IF UtilOver(reqCpu, useCpu, HighUtilPct) THEN "High CPU Risk"
      ELSE IF UtilOver(reqMem, useMem, HighUtilPct) THEN "High Memory Risk"
      ELSE NoReason

\* CostReason that labels the memory risk case with the forecast wording
CostReason_PredictedLabel(d) ==
  LET reqCpu == d.CurrentRequests.CPUCores
      useCpu == d.CurrentUsage.CPUCores
      reqMem == d.CurrentRequests.MemoryMB
      useMem == d.CurrentUsage.MemoryMB
  IN  IF reqCpu = 0 \/ reqMem = 0 THEN NoReason
      ELSE IF WasteOver(reqMem, useMem, HighWastePct) THEN "High Memory Waste"
      ELSE IF UtilOver(reqMem, useMem, HighUtilPct) THEN "Predicted Capacity Risk (Memory)"
      ELSE IF WasteOver(reqCpu, useCpu, HighWastePct) THEN "High CPU Waste"
      ELSE IF UtilOver(reqCpu, useCpu, HighUtilPct) THEN "High CPU Risk"
      ELSE NoReason

\* the body of one iteration of CheckCostThreshold: which reason, if any,
\* is handed to handleTrigger
CostReason(d) ==
  LET reqCpu == d.CurrentRequests.CPUCores
      useCpu == d.CurrentUsage.CPUCores
      reqMem == d.CurrentRequests.MemoryMB
      useMem == d.CurrentUsage.MemoryMB
  IN  IF reqCpu = 0 \/ reqMem = 0 THEN NoReason
      ELSE IF WasteOver(reqMem, useMem, HighWastePct) THEN "High Memory Waste"
      ELSE IF UtilOver(reqMem, useMem, HighUtilPct) THEN "High Memory Risk"
      ELSE IF WasteOver(reqCpu, useCpu, HighWastePct) THEN "High CPU Waste"
      ELSE IF UtilOver(reqCpu, useCpu, HighUtilPct) THEN "High CPU Risk"
      ELSE NoReason

\* evaluateForecastLogic with the memory branch ahead of the CPU branch
evaluateForecastLogic_MemoryFirst(f, c) ==
  LET reqCpu == c.CurrentRequests.CPUCores
      usageCpu == c.CurrentUsage.CPUCores
      predCpu == f.PredictPeak24h.CPUCores
      reqMem == c.CurrentRequests.MemoryMB
      usageMem == c.CurrentRequests.MemoryMB
      predMem == f.PredictPeak24h.MemoryMB
      capacityRiskCpu == predCpu * 10 > reqCpu * CapacityRiskTenths
      safeDownscaleCpu ==
        /\ (reqCpu - usageCpu) * 10 > DownscaleWasteTenths * reqCpu
        /\ predCpu * 10 < reqCpu * SafeDownscaleTenths
      capacityRiskMem == predMem * 10 > reqMem * CapacityRiskTenths
      safeDownscaleMem ==
        /\ (reqMem - usageMem) * 10 > DownscaleWasteTenths * reqMem
        /\ predMem * 10 < reqMem * SafeDownscaleTenths
  IN  IF reqMem > 0 /\ capacityRiskMem THEN "Predicted Capacity Risk (Memory)"
      ELSE IF reqMem > 0 /\ safeDownscaleMem THEN "Predicted Safe Downscale (Memory)"
      ELSE IF reqCpu > 0 /\ capacityRiskCpu THEN "Predicted Capacity Risk (CPU)"
      ELSE IF reqCpu > 0 /\ safeDownscaleCpu THEN "Predicted Safe Downscale (CPU)"
      ELSE NoReason

\* evaluateForecastLogic without the reqCpu > 0 and reqMem > 0 guards
evaluateForecastLogic_NoRequestGuard(f, c) ==
  LET reqCpu == c.CurrentRequests.CPUCores
      usageCpu == c.CurrentUsage.CPUCores
      predCpu == f.PredictPeak24h.CPUCores
      reqMem == c.CurrentRequests.MemoryMB
      usageMem == c.CurrentRequests.MemoryMB
      predMem == f.PredictPeak24h.MemoryMB
      capacityRiskCpu == predCpu * 10 > reqCpu * CapacityRiskTenths
      safeDownscaleCpu ==
        /\ (reqCpu - usageCpu) * 10 > DownscaleWasteTenths * reqCpu
        /\ predCpu * 10 < reqCpu * SafeDownscaleTenths
      capacityRiskMem == predMem * 10 > reqMem * CapacityRiskTenths
      safeDownscaleMem ==
        /\ (reqMem - usageMem) * 10 > DownscaleWasteTenths * reqMem
        /\ predMem * 10 < reqMem * SafeDownscaleTenths
  IN  IF capacityRiskCpu THEN "Predicted Capacity Risk (CPU)"
      ELSE IF safeDownscaleCpu THEN "Predicted Safe Downscale (CPU)"
      ELSE IF capacityRiskMem THEN "Predicted Capacity Risk (Memory)"
      ELSE IF safeDownscaleMem THEN "Predicted Safe Downscale (Memory)"
      ELSE NoReason

\* evaluateForecastLogic: the reason passed to executeForecastPush, if any.
\* usageMem is read from CurrentRequests.MemoryMB, as in the source.
evaluateForecastLogic(f, c) ==
  LET reqCpu == c.CurrentRequests.CPUCores
      usageCpu == c.CurrentUsage.CPUCores
      predCpu == f.PredictPeak24h.CPUCores
      reqMem == c.CurrentRequests.MemoryMB
      usageMem == c.CurrentRequests.MemoryMB
      predMem == f.PredictPeak24h.MemoryMB
      capacityRiskCpu == predCpu * 10 > reqCpu * CapacityRiskTenths
      safeDownscaleCpu ==
        /\ (reqCpu - usageCpu) * 10 > DownscaleWasteTenths * reqCpu
        /\ predCpu * 10 < reqCpu * SafeDownscaleTenths
      capacityRiskMem == predMem * 10 > reqMem * CapacityRiskTenths
      safeDownscaleMem ==
        /\ (reqMem - usageMem) * 10 > DownscaleWasteTenths * reqMem
        /\ predMem * 10 < reqMem * SafeDownscaleTenths
  IN  IF reqCpu > 0 /\ capacityRiskCpu THEN "Predicted Capacity Risk (CPU)"
      ELSE IF reqCpu > 0 /\ safeDownscaleCpu THEN "Predicted Safe Downscale (CPU)"
      ELSE IF reqMem > 0 /\ capacityRiskMem THEN "Predicted Capacity Risk (Memory)"
      ELSE IF reqMem > 0 /\ safeDownscaleMem THEN "Predicted Safe Downscale (Memory)"
      ELSE NoReason

\* ------------------------------------------------------- http.ResponseWriter
\* status 0: header not written yet; body: the chunks written so far
NewResponse == [status |-> 0, body |-> <<>>]

\* w.WriteHeader(code): a second call is ignored ("superfluous WriteHeader")
WriteHeader(w, code) == IF w.status = 0 THEN [w EXCEPT !.status = code] ELSE w

\* w.Write(b): writes an implicit 200 header if none was written
Write(w, b) ==
  [status |-> IF w.status = 0 THEN 200 ELSE w.status, body |-> Append(w.body, b)]

\* http.Error(w, msg, code): WriteHeader(code) then Fprintln(w, msg)
HttpError(w, msg, code) == Write(Write(WriteHeader(w, code), msg), "\n")

\* ------------------------------------------------------------------ inputs
TS == "2025-01-01T12:00:00Z"

ReqJSON == [cpu_cores |-> 100, memory_mb |-> 100]

DepJSON(n, uc, um) ==
  [name |-> n, current_requests |-> ReqJSON,
   current_usage |-> [cpu_cores |-> uc, memory_mb |-> um]]

CostBodyJSON(ns, vm, ds) ==
  [timestamp |-> TS, namespace |-> ns,
   cluster_info |-> [vm_count |-> vm, current_hourly_cost |-> 12],
   deployments |-> ds]

Body(j) == [wellformed |-> TRUE, json |-> j]

Malformed == [wellformed |-> FALSE, json |-> <<>>]

\* request bodies a cost producer may post
CostBodies ==
  { Body(CostBodyJSON("default", 3, <<DepJSON("a", 90, 10), DepJSON("a", 10, 60)>>)),
    Body(CostBodyJSON("default", 4, <<DepJSON("b", 10, 90), DepJSON("a", 60, 10)>>)),
    Body(CostBodyJSON("default", 5,
         <<[name |-> "c", current_requests |-> ReqJSON,
            current_usage |-> [cpu_cores |-> 60, memory_mb |-> 10],
            predicted_peak_24h |-> [cpu_cores |-> 70, memory_mb |-> 70]]>>)),
    Body(CostBodyJSON("kube-system", 3, <<DepJSON("a", 60, 10)>>)),
    Body(CostBodyJSON("default", 3, <<DepJSON("a", 60, 0)>>)),
    Body(CostBodyJSON("default", 3, <<>>)),
    Malformed }

FDepJSON(n, pc, pm) ==
  [name |-> n, predicted_peak_24h |-> [cpu_cores |-> pc, memory_mb |-> pm]]

ForecastBodyJSON(ns, ds) == [timestamp |-> TS, namespace |-> ns, deployments |-> ds]

\* request bodies a forecast producer may post
ForecastBodies ==
  { Body(ForecastBodyJSON("default", <<FDepJSON("c", 95, 95), FDepJSON("a", 95, 50)>>)),
    Body(ForecastBodyJSON("default", <<FDepJSON("a", 70, 70)>>)),
    Body(ForecastBodyJSON("kube-system", <<FDepJSON("a", 95, 50)>>)),
    Body(ForecastBodyJSON("default", <<FDepJSON("a", 0, 50)>>)),
    Body(ForecastBodyJSON("default", <<>>)),
    Malformed }

Names == {"a", "b", "c"}

\* ------------------------------------------------------------------- state
VARIABLES
  costLatest,   \* Redis key cost:latest: <<>> (absent) or <<json>>
  cooldown,     \* Redis keys trigger:cooldown:<name>: <<>> (absent) or <<string>>
  queue,        \* Redis list queue:agent:jobs, head first
  now,          \* time.Now().Unix()
  faults,       \* store operations that have failed so far
  nposted,      \* requests received so far
  kind,         \* kind[r]: "none", "cost" or "forecast"
  hpc,          \* hpc[r]: position of the HTTP handler of request r
  payload,      \* payload[r]: the decoded payload of request r
  resp,         \* resp[r]: the ResponseWriter of request r
  tpc,          \* tpc[r]: position of the goroutine spawned for request r
  idx,          \* idx[r]: loop index of that goroutine (1-based)
  loc,          \* loc[r]: locals of that goroutine
  expired,      \* expired[r]: ctx.Done() of that goroutine is closed
  pubLog,       \* history: every successful LPUSH, oldest first
  overlap,      \* history: names on which two cooldown-gated sections overlapped
  cdLost,       \* history: names for which a cooldown SET failed
  evalIn,       \* input of a stand-alone evaluation of a pure function
  evalOut       \* its result

storeVars == <<costLatest, cooldown, queue>>

reqVars == <<nposted, kind, hpc, payload, resp>>

taskVars == <<tpc, idx, loc, expired>>

histVars == <<pubLog, overlap, cdLost>>

evalVars == <<evalIn, evalOut>>

vars == <<costLatest, cooldown, queue, now, faults, nposted, kind, hpc, payload,
          resp, tpc, idx, loc, expired, pubLog, overlap, cdLost, evalIn, evalOut>>

Absent == <<>>

NoLoc == [reason |-> NoReason, stamp |-> 0, snapshot |-> <<>>]

NoPayload == [Deployments |-> <<>>]

NoEval == [mode |-> "none"]

\* the state after NewAPIServer, for a given content of cost:latest
InitWith(snapshot) ==
  /\ costLatest = snapshot
  /\ cooldown = [n \in Names |-> Absent]
  /\ queue = <<>>
  /\ now = 0
  /\ faults = 0
  /\ nposted = 0
  /\ kind = [r \in Reqs |-> "none"]
  /\ hpc = [r \in Reqs |-> "idle"]
  /\ payload = [r \in Reqs |-> NoPayload]
  /\ resp = [r \in Reqs |-> NewResponse]
  /\ tpc = [r \in Reqs |-> "none"]
  /\ idx = [r \in Reqs |-> 0]
  /\ loc = [r \in Reqs |-> NoLoc]
  /\ expired = [r \in Reqs |-> FALSE]
  /\ pubLog = <<>>
  /\ overlap = {}
  /\ cdLost = {}

\* Redis outlives the Hub process: at start cost:latest is absent or holds
\* what an earlier run of the Hub saved
InitSnapshots ==
  { Absent,
    <<MarshalCostPayload(UnmarshalCostPayload(
        CostBodyJSON("default", 4, <<DepJSON("b", 10, 90), DepJSON("a", 60, 10)>>)))>> }

Init ==
  /\ \E s \in InitSnapshots : InitWith(s)
  /\ evalIn = NoEval
  /\ evalOut = NoReason

\* ------------------------------------------------------------ store access
\* Outcomes of one Redis command.  A command may fail while the fault budget
\* lasts; a command issued under a context whose deadline has passed may
\* fail or succeed, depending on how far the client got before the deadline.
Outcomes(ctxDone) ==
  {TRUE} \cup (IF ctxDone \/ faults < MaxFaults THEN {FALSE} ELSE {})

FaultsAfter(ok, ctxDone) == IF ok \/ ctxDone THEN faults ELSE faults + 1

CanPost == nposted < MaxReq

\* ------------------------------------------------------ POST .../metrics/cost
\* SaveCostPayload that stores the time of the save with the payload
SavedCost_AddsClock(p) ==
  <<[MarshalCostPayload(p) EXCEPT !.cluster_info.vm_count = @ + now]>>

\* SaveCostPayload: the value written under cost:latest
SavedCost(p) == <<MarshalCostPayload(p)>>

\* SaveCostPayload that starts the goroutine before looking at the SET error
SaveCostPayload_SpawnsFirst(ok) == [err |-> ~ok, written |-> ok, spawned |-> TRUE]

\* SaveCostPayload that swallows the error of the SET
SaveCostPayload_ReportsNoError(ok) == [err |-> FALSE, written |-> ok, spawned |-> ok]

\* SaveCostPayload, given whether the SET succeeded: a failed SET returns the
\* error before the goroutine is started
SaveCostPayload(ok) == [err |-> ~ok, written |-> ok, spawned |-> ok]

\* handleCostEngine up to the return of SaveCostPayload: decode, validate,
\* SET cost:latest, spawn the goroutine.  Decoding and validating are local
\* to the handler, so they are one step with the store command that follows.
handleCostEngine(b) ==
  /\ CanPost
  /\ LET r == nposted + 1
         p == UnmarshalCostPayload(b.json)
     IN  /\ nposted' = r
         /\ kind' = [kind EXCEPT ![r] = "cost"]
         /\ payload' = [payload EXCEPT ![r] = IF b.wellformed THEN p ELSE NoPayload]
         /\ IF ~b.wellformed
            THEN /\ resp' = [resp EXCEPT ![r] =
                               HttpError(NewResponse, "Bad request", StatusBadRequest)]
                 /\ hpc' = [hpc EXCEPT ![r] = "done"]
                 /\ UNCHANGED <<costLatest, tpc, idx, faults>>
            ELSE IF ~ValidateCostPayload(p)
            THEN /\ resp' = [resp EXCEPT ![r] =
                               HttpError(NewResponse, "Invalid JSON format", StatusBadRequest)]
                 /\ hpc' = [hpc EXCEPT ![r] = "done"]
                 /\ UNCHANGED <<costLatest, tpc, idx, faults>>
            ELSE \E ok \in Outcomes(FALSE) :
                   LET res == SaveCostPayload(ok)
                   IN  /\ faults' = FaultsAfter(ok, FALSE)
                       /\ costLatest' = IF res.written THEN SavedCost(p) ELSE costLatest
                       /\ tpc' = [tpc EXCEPT ![r] = IF res.spawned THEN "loop" ELSE @]
                       /\ idx' = [idx EXCEPT ![r] = IF res.spawned THEN 1 ELSE @]
                       /\ IF res.err
                          THEN /\ resp' = [resp EXCEPT ![r] =
                                             HttpError(NewResponse, "Failed to save",
                                                       StatusInternalServerError)]
                               /\ hpc' = [hpc EXCEPT ![r] = "done"]
                          ELSE /\ hpc' = [hpc EXCEPT ![r] = "respond"]
                               /\ UNCHANGED resp
  /\ UNCHANGED <<cooldown, queue, now, loc, expired, histVars, evalVars>>

\* the last statements of handleCostEngine without the WriteHeader call
CostAcceptedResponse_NoHeader(w) == Write(w, "Cost payload accepted")

\* the last statements of handleCostEngine: WriteHeader(201), then Write
CostAcceptedResponse(w) ==
  Write(WriteHeader(w, StatusCreated), "Cost payload accepted")

\* handleCostEngine after SaveCostPayload returned nil
CostAccepted(r) ==
  /\ hpc[r] = "respond"
  /\ kind[r] = "cost"
  /\ resp' = [resp EXCEPT ![r] = CostAcceptedResponse(resp[r])]
  /\ hpc' = [hpc EXCEPT ![r] = "done"]
  /\ UNCHANGED <<storeVars, now, faults, nposted, kind, payload, taskVars,
                 histVars, evalVars>>

\* --------------------------------------------------- cost evaluation goroutine
\* between the cooldown GET that let the trigger through and the cooldown SET
GatedPcs == {"push", "setcd"}

CurrentDeployment(r) == payload[r].Deployments[idx[r]]

\* another goroutine is inside the cooldown-gated section for name n
OtherGated(r, n) ==
  \E q \in Reqs \ {r} :
    /\ kind[q] = "cost"
    /\ tpc[q] \in GatedPcs
    /\ CurrentDeployment(q).Name = n

\* a loop that steps over the deployment after the current one
NextDeployment_SkipsOne(r) ==
  /\ tpc' = [tpc EXCEPT ![r] =
               IF idx[r] + 2 > Len(payload[r].Deployments) THEN "done" ELSE "loop"]
  /\ idx' = [idx EXCEPT ![r] = idx[r] + 2]
  /\ loc' = [loc EXCEPT ![r] = NoLoc]

\* a loop that takes the same deployment again
NextDeployment_Retries(r) ==
  /\ tpc' = [tpc EXCEPT ![r] = "loop"]
  /\ idx' = [idx EXCEPT ![r] = idx[r]]
  /\ loc' = [loc EXCEPT ![r] = NoLoc]

\* the range loop moves on; after the last element the goroutine returns
NextDeployment(r) ==
  /\ tpc' = [tpc EXCEPT ![r] =
               IF idx[r] + 1 > Len(payload[r].Deployments) THEN "done" ELSE "loop"]
  /\ idx' = [idx EXCEPT ![r] = idx[r] + 1]
  /\ loc' = [loc EXCEPT ![r] = NoLoc]

\* the cooldown test with a window of 15 minutes
CooldownActive_HalfWindow(currentTime, lastTrigger) ==
  currentTime - lastTrigger < CooldownSecs \div 2

\* the cooldown test with <= in place of <: a trigger exactly 1800 seconds
\* after the last one is still suppressed
CooldownActive_Inclusive(currentTime, lastTrigger) ==
  currentTime - lastTrigger <= CooldownSecs

\* the cooldown test that lets a trigger through when the key was stamped
\* in the current second
CooldownActive_SameSecondOpen(currentTime, lastTrigger) ==
  currentTime - lastTrigger < CooldownSecs /\ currentTime > lastTrigger

\* the cooldown test of handleTrigger on the parsed timestamp
CooldownActive(currentTime, lastTrigger) == currentTime - lastTrigger < CooldownSecs

\* handleTrigger that treats redis.Nil like any other error of the GET
TriggerPasses_NilIsError(v, currentTime) ==
  /\ v # Absent
  /\ ParseIntOk(v[1])
  /\ ~CooldownActive(currentTime, ParseInt(v[1]))

\* handleTrigger that goes on to executePush when the stored value does not
\* parse (fail open)
TriggerPasses_ParseFailOpen(v, currentTime) ==
  \/ v = Absent
  \/ ~ParseIntOk(v[1])
  \/ ~CooldownActive(currentTime, ParseInt(v[1]))

\* handleTrigger after a successful GET: does it go on to executePush?
\* v is the reply: Absent for redis.Nil, <<string>> otherwise
TriggerPasses(v, currentTime) ==
  \/ v = Absent
  \/ /\ ParseIntOk(v[1])
     /\ ~CooldownActive(currentTime, ParseInt(v[1]))

\* CheckCostThreshold without the select on ctx.Done() at the top of the loop
CheckCostThreshold_IgnoresDeadline(r) ==
  /\ tpc[r] = "loop"
  /\ kind[r] = "cost"
  /\ LET d == CurrentDeployment(r)
         reason == CostReason(d)
     IN  IF reason = NoReason
         THEN /\ NextDeployment(r)
              /\ UNCHANGED <<overlap, faults>>
         ELSE \E ok \in Outcomes(expired[r]) :
                /\ faults' = FaultsAfter(ok, expired[r])
                /\ IF ok /\ TriggerPasses(cooldown[d.Name], now)
                   THEN /\ tpc' = [tpc EXCEPT ![r] = "push"]
                        /\ loc' = [loc EXCEPT ![r].reason = reason]
                        /\ overlap' = IF OtherGated(r, d.Name)
                                      THEN overlap \cup {d.Name} ELSE overlap
                        /\ UNCHANGED idx
                   ELSE /\ NextDeployment(r)
                        /\ UNCHANGED overlap
  /\ UNCHANGED <<storeVars, now, reqVars, expired, pubLog, cdLost, evalVars>>

\* CheckCostThreshold: one loop iteration from the ctx.Done() check through
\* handleTrigger (GET trigger:cooldown:<name>, parse, clock, compare) up to
\* the call of executePush
CheckCostThreshold(r) ==
  /\ tpc[r] = "loop"
  /\ kind[r] = "cost"
  /\ IF expired[r]
     THEN /\ tpc' = [tpc EXCEPT ![r] = "done"]
          /\ loc' = [loc EXCEPT ![r] = NoLoc]
          /\ UNCHANGED <<idx, overlap, faults>>
     ELSE LET d == CurrentDeployment(r)
              reason == CostReason(d)
          IN  IF reason = NoReason
              THEN /\ NextDeployment(r)
                   /\ UNCHANGED <<overlap, faults>>
              ELSE \E ok \in Outcomes(expired[r]) :
                     /\ faults' = FaultsAfter(ok, expired[r])
                     /\ IF ok /\ TriggerPasses(cooldown[d.Name], now)
                        THEN /\ tpc' = [tpc EXCEPT ![r] = "push"]
                             /\ loc' = [loc EXCEPT ![r].reason = reason]
                             /\ overlap' = IF OtherGated(r, d.Name)
                                           THEN overlap \cup {d.Name} ELSE overlap
                             /\ UNCHANGED idx
                        ELSE /\ NextDeployment(r)
                             /\ UNCHANGED overlap
  /\ UNCHANGED <<storeVars, now, reqVars, expired, pubLog, cdLost, evalVars>>

\* PublishJob with RPUSH: the marshalled job goes to the tail
PublishJob_Appends(q, job) == q \o <<MarshalAgentJob(job)>>

\* redis-queue PublishJob: LPUSH puts the marshalled job at the head
PublishJob(q, job) == <<MarshalAgentJob(job)>> \o q

LogEntry(r, k, d, reason) ==
  [req |-> r, idx |-> idx[r], kind |-> k, name |-> d.Name, reason |-> reason,
   time |-> now]

\* executePush that reads the cooldown key again and drops the job when
\* another evaluation has stamped it in the meantime
executePush_Rechecks(r) ==
  /\ tpc[r] = "push"
  /\ LET d == CurrentDeployment(r)
         job == AgentJob(loc[r].reason, payload[r].Namespace, d, payload[r].ClusterInfo)
     IN  \E ok \in Outcomes(expired[r]) :
           /\ faults' = FaultsAfter(ok, expired[r])
           /\ IF ok /\ TriggerPasses(cooldown[d.Name], now)
              THEN /\ queue' = PublishJob(queue, job)
                   /\ pubLog' = Append(pubLog, LogEntry(r, "cost", d, loc[r].reason))
                   /\ tpc' = [tpc EXCEPT ![r] = "setcd"]
                   /\ loc' = [loc EXCEPT ![r].stamp = now]
                   /\ UNCHANGED idx
              ELSE /\ NextDeployment(r)
                   /\ UNCHANGED <<queue, pubLog>>
  /\ UNCHANGED <<costLatest, cooldown, now, reqVars, expired, overlap, cdLost, evalVars>>

\* executePush without the return after a failed PublishJob: the cooldown
\* key is stamped whether or not the job was published
executePush_StampsOnFailure(r) ==
  /\ tpc[r] = "push"
  /\ LET d == CurrentDeployment(r)
         job == AgentJob(loc[r].reason, payload[r].Namespace, d, payload[r].ClusterInfo)
     IN  \E ok \in Outcomes(expired[r]) :
           /\ faults' = FaultsAfter(ok, expired[r])
           /\ queue' = IF ok THEN PublishJob(queue, job) ELSE queue
           /\ pubLog' = IF ok THEN Append(pubLog, LogEntry(r, "cost", d, loc[r].reason))
                        ELSE pubLog
           /\ tpc' = [tpc EXCEPT ![r] = "setcd"]
           /\ loc' = [loc EXCEPT ![r].stamp = now]
           /\ UNCHANGED idx
  /\ UNCHANGED <<costLatest, cooldown, now, reqVars, expired, overlap, cdLost, evalVars>>

\* executePush that stamps the key with the end of the cooldown window
\* instead of the time of the publish
executePush_StampsExpiry(r) ==
  /\ tpc[r] = "push"
  /\ LET d == CurrentDeployment(r)
         job == AgentJob(loc[r].reason, payload[r].Namespace, d, payload[r].ClusterInfo)
     IN  \E ok \in Outcomes(expired[r]) :
           /\ faults' = FaultsAfter(ok, expired[r])
           /\ IF ok
              THEN /\ queue' = PublishJob(queue, job)
                   /\ pubLog' = Append(pubLog, LogEntry(r, "cost", d, loc[r].reason))
                   /\ tpc' = [tpc EXCEPT ![r] = "setcd"]
                   /\ loc' = [loc EXCEPT ![r].stamp = now + CooldownSecs]
                   /\ UNCHANGED idx
              ELSE /\ NextDeployment(r)
                   /\ UNCHANGED <<queue, pubLog>>
  /\ UNCHANGED <<costLatest, cooldown, now, reqVars, expired, overlap, cdLost, evalVars>>

\* executePush after which the whole evaluation ends when PublishJob fails
executePush_AbortsOnFailure(r) ==
  /\ tpc[r] = "push"
  /\ LET d == CurrentDeployment(r)
         job == AgentJob(loc[r].reason, payload[r].Namespace, d, payload[r].ClusterInfo)
     IN  \E ok \in Outcomes(expired[r]) :
           /\ faults' = FaultsAfter(ok, expired[r])
           /\ IF ok
              THEN /\ queue' = PublishJob(queue, job)
                   /\ pubLog' = Append(pubLog, LogEntry(r, "cost", d, loc[r].reason))
                   /\ tpc' = [tpc EXCEPT ![r] = "setcd"]
                   /\ loc' = [loc EXCEPT ![r].stamp = now]
                   /\ UNCHANGED idx
              ELSE /\ tpc' = [tpc EXCEPT ![r] = "done"]
                   /\ idx' = [idx EXCEPT ![r] = idx[r] + 1]
                   /\ loc' = [loc EXCEPT ![r] = NoLoc]
                   /\ UNCHANGED <<queue, pubLog>>
  /\ UNCHANGED <<costLatest, cooldown, now, reqVars, expired, overlap, cdLost, evalVars>>

\* executePush that takes namespace and cluster_info from cost:latest as it
\* is at the time of the publish
executePush_ReadsStore(r) ==
  /\ tpc[r] = "push"
  /\ LET d == CurrentDeployment(r)
         stored == IF costLatest = Absent THEN payload[r]
                   ELSE UnmarshalCostPayload(costLatest[1])
         job == AgentJob(loc[r].reason, stored.Namespace, d, stored.ClusterInfo)
     IN  \E ok \in Outcomes(expired[r]) :
           /\ faults' = FaultsAfter(ok, expired[r])
           /\ IF ok
              THEN /\ queue' = PublishJob(queue, job)
                   /\ pubLog' = Append(pubLog, LogEntry(r, "cost", d, loc[r].reason))
                   /\ tpc' = [tpc EXCEPT ![r] = "setcd"]
                   /\ loc' = [loc EXCEPT ![r].stamp = now]
                   /\ UNCHANGED idx
              ELSE /\ NextDeployment(r)
                   /\ UNCHANGED <<queue, pubLog>>
  /\ UNCHANGED <<costLatest, cooldown, now, reqVars, expired, overlap, cdLost, evalVars>>

\* executePush: build the job, publish it, and read the clock for the
\* cooldown value
executePush(r) ==
  /\ tpc[r] = "push"
  /\ LET d == CurrentDeployment(r)
         job == AgentJob(loc[r].reason, payload[r].Namespace, d, payload[r].ClusterInfo)
     IN  \E ok \in Outcomes(expired[r]) :
           /\ faults' = FaultsAfter(ok, expired[r])
           /\ IF ok
              THEN /\ queue' = PublishJob(queue, job)
                   /\ pubLog' = Append(pubLog, LogEntry(r, "cost", d, loc[r].reason))
                   /\ tpc' = [tpc EXCEPT ![r] = "setcd"]
                   /\ loc' = [loc EXCEPT ![r].stamp = now]
                   /\ UNCHANGED idx
              ELSE /\ NextDeployment(r)
                   /\ UNCHANGED <<queue, pubLog>>
  /\ UNCHANGED <<costLatest, cooldown, now, reqVars, expired, overlap, cdLost, evalVars>>

\* executePush: SET trigger:cooldown:<name>; its error is not looked at
executePushSet(r) ==
  /\ tpc[r] = "setcd"
  /\ LET n == CurrentDeployment(r).Name
     IN  \E ok \in Outcomes(expired[r]) :
           /\ faults' = FaultsAfter(ok, expired[r])
           /\ cooldown' = IF ok THEN [cooldown EXCEPT ![n] = <<FormatInt(loc[r].stamp)>>]
                          ELSE cooldown
           /\ cdLost' = IF ok THEN cdLost ELSE cdLost \cup {n}
           /\ NextDeployment(r)
  /\ UNCHANGED <<costLatest, queue, now, reqVars, expired, pubLog, overlap, evalVars>>

\* -------------------------------------------------- POST .../metrics/forecast
\* FetchPayload, given whether the GET succeeded and what it found: redis.Nil
\* and any other error are returned before the goroutine is started
FetchPayload(ok, found) == [err |-> ~(ok /\ found # Absent), spawned |-> ok /\ found # Absent]

\* handleForecast up to the return of FetchPayload: decode, validate,
\* GET cost:latest; redis.Nil and any other error are returned, otherwise the
\* goroutine is spawned with the string that was read.  On an error the
\* handler calls http.Error and falls through (there is no return).
handleForecast(b) ==
  /\ CanPost
  /\ LET r == nposted + 1
         p == UnmarshalForecastPayload(b.json)
     IN  /\ nposted' = r
         /\ kind' = [kind EXCEPT ![r] = "forecast"]
         /\ payload' = [payload EXCEPT ![r] = IF b.wellformed THEN p ELSE NoPayload]
         /\ IF ~b.wellformed
            THEN /\ resp' = [resp EXCEPT ![r] =
                               HttpError(NewResponse, "Bad request", StatusBadRequest)]
                 /\ hpc' = [hpc EXCEPT ![r] = "done"]
                 /\ UNCHANGED <<tpc, idx, loc, faults>>
            ELSE IF ~ValidateForecastPayload(p)
            THEN /\ resp' = [resp EXCEPT ![r] =
                               HttpError(NewResponse, "Invalid JSON format", StatusBadRequest)]
                 /\ hpc' = [hpc EXCEPT ![r] = "done"]
                 /\ UNCHANGED <<tpc, idx, loc, faults>>
            ELSE \E ok \in Outcomes(FALSE) :
                   /\ faults' = FaultsAfter(ok, FALSE)
                   /\ hpc' = [hpc EXCEPT ![r] = "respond"]
                   /\ LET res == FetchPayload(ok, costLatest)
                      IN  /\ tpc' = [tpc EXCEPT ![r] = IF res.spawned THEN "floop" ELSE @]
                          /\ idx' = [idx EXCEPT ![r] = IF res.spawned THEN 1 ELSE @]
                          /\ loc' = [loc EXCEPT ![r].snapshot =
                                       IF res.spawned THEN costLatest[1] ELSE @]
                          /\ resp' = [resp EXCEPT ![r] =
                                        IF res.err
                                        THEN HttpError(NewResponse, "Failed to process forecast",
                                                       StatusBadRequest)
                                        ELSE @]
  /\ UNCHANGED <<storeVars, now, expired, histVars, evalVars>>

\* the last statements of handleForecast without the WriteHeader call
ForecastAcceptedResponse_NoHeader(w) == Write(w, "Forecast payload accepted")

\* the last statements of handleForecast: WriteHeader(201), then Write
ForecastAcceptedResponse(w) ==
  Write(WriteHeader(w, StatusCreated), "Forecast payload accepted")

\* handleForecast: the last three statements
ForecastAccepted(r) ==
  /\ hpc[r] = "respond"
  /\ kind[r] = "forecast"
  /\ resp' = [resp EXCEPT ![r] = ForecastAcceptedResponse(resp[r])]
  /\ hpc' = [hpc EXCEPT ![r] = "done"]
  /\ UNCHANGED <<storeVars, now, faults, nposted, kind, payload, taskVars,
                 histVars, evalVars>>

\* ----------------------------------------------- forecast evaluation goroutine
\* costMap: the last snapshot deployment of each name
CostMapHas(deps, n) == \E i \in 1..Len(deps) : deps[i].Name = n

\* a map that keeps the first snapshot deployment of each name
CostMapGet_First(deps, n) ==
  deps[CHOOSE i \in 1..Len(deps) :
         /\ deps[i].Name = n
         /\ \A j \in 1..(i - 1) : deps[j].Name # n]

CostMapGet(deps, n) ==
  deps[CHOOSE i \in 1..Len(deps) :
         /\ deps[i].Name = n
         /\ \A j \in (i + 1)..Len(deps) : deps[j].Name # n]

\* a goroutine that decodes what cost:latest holds when it runs, instead of
\* the string its handler read
Snapshot_ReadsStore(r) == UnmarshalCostPayload(costLatest[1])

Snapshot(r) == UnmarshalCostPayload(loc[r].snapshot)

\* the range loop over the forecast entries moves on; after the last entry
\* the goroutine returns
NextForecastEntry(r) ==
  /\ tpc' = [tpc EXCEPT ![r] =
               IF idx[r] + 1 > Len(payload[r].Deployments) THEN "done" ELSE "floop"]
  /\ idx' = [idx EXCEPT ![r] = idx[r] + 1]
  /\ loc' = [loc EXCEPT ![r] =
               IF idx[r] + 1 > Len(payload[r].Deployments) THEN NoLoc
               ELSE [@ EXCEPT !.reason = NoReason]]

\* CheckForecastThreshold that returns at the first forecast entry without a
\* snapshot deployment of its name
CheckForecastThreshold_StopsAtUnmatched(r) ==
  /\ tpc[r] = "floop"
  /\ kind[r] = "forecast"
  /\ IF expired[r]
     THEN /\ tpc' = [tpc EXCEPT ![r] = "done"]
          /\ loc' = [loc EXCEPT ![r] = NoLoc]
          /\ UNCHANGED idx
     ELSE LET f == payload[r].Deployments[idx[r]]
              deps == Snapshot(r).Deployments
          IN  IF ~CostMapHas(deps, f.Name)
              THEN /\ tpc' = [tpc EXCEPT ![r] = "done"]
                   /\ idx' = [idx EXCEPT ![r] = idx[r] + 1]
                   /\ loc' = [loc EXCEPT ![r] = NoLoc]
              ELSE IF evaluateForecastLogic(f, CostMapGet(deps, f.Name)) # NoReason
              THEN /\ tpc' = [tpc EXCEPT ![r] = "fpush"]
                   /\ loc' = [loc EXCEPT ![r].reason =
                                evaluateForecastLogic(f, CostMapGet(deps, f.Name))]
                   /\ UNCHANGED idx
              ELSE NextForecastEntry(r)
  /\ UNCHANGED <<storeVars, now, faults, reqVars, expired, histVars, evalVars>>

\* CheckForecastThreshold: unmarshal, index, and one loop iteration from the
\* ctx.Done() check up to the call of executeForecastPush
CheckForecastThreshold(r) ==
  /\ tpc[r] = "floop"
  /\ kind[r] = "forecast"
  /\ IF expired[r]
     THEN /\ tpc' = [tpc EXCEPT ![r] = "done"]
          /\ loc' = [loc EXCEPT ![r] = NoLoc]
          /\ UNCHANGED idx
     ELSE LET f == payload[r].Deployments[idx[r]]
              deps == Snapshot(r).Deployments
          IN  IF CostMapHas(deps, f.Name)
                 /\ evaluateForecastLogic(f, CostMapGet(deps, f.Name)) # NoReason
              THEN /\ tpc' = [tpc EXCEPT ![r] = "fpush"]
                   /\ loc' = [loc EXCEPT ![r].reason =
                                evaluateForecastLogic(f, CostMapGet(deps, f.Name))]
                   /\ UNCHANGED idx
              ELSE NextForecastEntry(r)
  /\ UNCHANGED <<storeVars, now, faults, reqVars, expired, histVars, evalVars>>

\* executeForecastPush that also stamps the cooldown key, as executePush does
ForecastPushStore_SetsCooldown(job, n, t) ==
  <<costLatest, [cooldown EXCEPT ![n] = <<FormatInt(t)>>], PublishJob(queue, job)>>

\* executeForecastPush that also saves the merged deployment as the snapshot
ForecastPushStore_SavesMerged(job, n, t) ==
  << <<MarshalCostPayload(
         CostPayload(TS, job.Namespace, job.ClusterInfo, <<job.Deployment>>))>>,
     cooldown, PublishJob(queue, job) >>

\* executeForecastPush that clears the cooldown key of the name it publishes
ForecastPushStore_ClearsCooldown(job, n, t) ==
  <<costLatest, [cooldown EXCEPT ![n] = Absent], PublishJob(queue, job)>>

\* executeForecastPush after a successful PublishJob: the three parts of the
\* store.  The job goes on the list; cost:latest and the cooldown keys are
\* not written (n is the deployment name, t the time of the push).
ForecastPushStore(job, n, t) == <<costLatest, cooldown, PublishJob(queue, job)>>

\* executeForecastPush: attach the prediction to the by-value copy of the
\* snapshot deployment and publish; no cooldown key is read or written
executeForecastPush(r) ==
  /\ tpc[r] = "fpush"
  /\ LET f == payload[r].Deployments[idx[r]]
         snap == Snapshot(r)
         c == [CostMapGet(snap.Deployments, f.Name)
                 EXCEPT !.PredictPeak24h = <<f.PredictPeak24h>>]
         job == AgentJob(loc[r].reason, snap.Namespace, c, snap.ClusterInfo)
     IN  \E ok \in Outcomes(expired[r]) :
           /\ faults' = FaultsAfter(ok, expired[r])
           /\ IF ok
              THEN /\ costLatest' = ForecastPushStore(job, c.Name, now)[1]
                   /\ cooldown' = ForecastPushStore(job, c.Name, now)[2]
                   /\ queue' = ForecastPushStore(job, c.Name, now)[3]
                   /\ pubLog' = Append(pubLog, LogEntry(r, "forecast", c, loc[r].reason))
              ELSE UNCHANGED <<storeVars, pubLog>>
  /\ NextForecastEntry(r)
  /\ UNCHANGED <<now, reqVars, expired, overlap, cdLost, evalVars>>

\* ------------------------------------------------------------- environment
Running(r) == tpc[r] \notin {"none", "done"}

\* the wall clock advances; every goroutine spawned before is past its
\* 10-second deadline afterwards
Tick ==
  /\ now + TickSecs <= MaxTicks * TickSecs
  /\ now' = now + TickSecs
  /\ expired' = [r \in Reqs |-> expired[r] \/ Running(r)]
  /\ UNCHANGED <<storeVars, faults, reqVars, tpc, idx, loc, histVars, evalVars>>

\* context.WithTimeout(bg, 10*time.Second) fires
Deadline(r) ==
  /\ Running(r)
  /\ ~expired[r]
  /\ expired' = [expired EXCEPT ![r] = TRUE]
  /\ UNCHANGED <<storeVars, now, faults, reqVars, tpc, idx, loc, histVars, evalVars>>

Next ==
  \/ \E b \in CostBodies : handleCostEngine(b)
  \/ \E r \in Reqs : CostAccepted(r)
  \/ \E r \in Reqs : CheckCostThreshold(r)
  \/ \E r \in Reqs : executePush(r)
  \/ \E r \in Reqs : executePushSet(r)
  \/ \E b \in ForecastBodies : handleForecast(b)
  \/ \E r \in Reqs : ForecastAccepted(r)
  \/ \E r \in Reqs : CheckForecastThreshold(r)
  \/ \E r \in Reqs : executeForecastPush(r)
  \/ Tick
  \/ \E r \in Reqs : Deadline(r)

Spec == Init /\ [][Next]_vars

\* ------------------------------------------------ cost ingest under fairness
\* the valid cost bodies
ValidCostBodies ==
  {b \in CostBodies : b.wellformed /\ ValidateCostPayload(UnmarshalCostPayload(b.json))}

\* cost ingest alone: valid cost posts, their handlers and their goroutines,
\* all within one reading of the clock (requests that arrive within the
\* same 10-second window)
CostNext ==
  \/ \E b \in ValidCostBodies : handleCostEngine(b)
  \/ \E r \in Reqs : CostAccepted(r)
  \/ \E r \in Reqs : CheckCostThreshold(r)
  \/ \E r \in Reqs : executePush(r)
  \/ \E r \in Reqs : executePushSet(r)
  \/ \E r \in Reqs : Deadline(r)

\* The Go scheduler runs every runnable goroutine: a handler that has to
\* write its response and an evaluation goroutine that has a step to take
\* do take it.  New requests, the clock and the deadline are not forced.
Fairness ==
  \A r \in Reqs :
    /\ WF_vars(CostAccepted(r))
    /\ WF_vars(CheckCostThreshold(r))
    /\ WF_vars(executePush(r))
    /\ WF_vars(executePushSet(r))

FairInit ==
  /\ InitWith(Absent)
  /\ evalIn = NoEval
  /\ evalOut = NoReason

FairSpec == FairInit /\ [][CostNext]_vars /\ Fairness

\* ------------------------------------- cost ingest with a clock in seconds
MaxSeconds == 1      \* one-second clock advances in one run

\* time.Now().Unix() moves on by one second; no deadline passes
Second ==
  /\ now < MaxSeconds
  /\ now' = now + 1
  /\ UNCHANGED <<storeVars, faults, reqVars, taskVars, histVars, evalVars>>

\* cost ingest alone, with the clock advancing by seconds as well as by
\* quarters of an hour
ClockNext ==
  \/ \E b \in ValidCostBodies : handleCostEngine(b)
  \/ \E r \in Reqs : CostAccepted(r)
  \/ \E r \in Reqs : CheckCostThreshold(r)
  \/ \E r \in Reqs : executePush(r)
  \/ \E r \in Reqs : executePushSet(r)
  \/ \E r \in Reqs : Deadline(r)
  \/ Tick
  \/ Second

ClockSpec == FairInit /\ [][ClockNext]_vars

\* ------------------------------ both routes under fairness, clock at rest
\* both routes within one reading of the clock: every request, handler and
\* goroutine step, and the deadline of each goroutine
TermNext ==
  \/ \E b \in CostBodies : handleCostEngine(b)
  \/ \E r \in Reqs : CostAccepted(r)
  \/ \E r \in Reqs : CheckCostThreshold(r)
  \/ \E r \in Reqs : executePush(r)
  \/ \E r \in Reqs : executePushSet(r)
  \/ \E b \in ForecastBodies : handleForecast(b)
  \/ \E r \in Reqs : ForecastAccepted(r)
  \/ \E r \in Reqs : CheckForecastThreshold(r)
  \/ \E r \in Reqs : executeForecastPush(r)
  \/ \E r \in Reqs : Deadline(r)

\* the Go scheduler runs every runnable goroutine, and every Redis command
\* returns (with a reply or an error, at the latest when the context is
\* done): a goroutine of either kind that has a step to take does take it
TermFairness ==
  \A r \in Reqs :
    /\ WF_vars(CostAccepted(r))
    /\ WF_vars(CheckCostThreshold(r))
    /\ WF_vars(executePush(r))
    /\ WF_vars(executePushSet(r))
    /\ WF_vars(ForecastAccepted(r))
    /\ WF_vars(CheckForecastThreshold(r))
    /\ WF_vars(executeForecastPush(r))

TermSpec == Init /\ [][TermNext]_vars /\ TermFairness

\* ------------------------- cost ingest over a store with a foreign value
\* strings that strconv.ParseInt(s, 10, 64) rejects: a word, the empty
\* string, digits followed by a letter
GarbageValues == { <<"x">>, <<>>, <<"1", "x">> }

\* Redis is shared: one trigger:cooldown:<name> key holds a value that the
\* Hub did not write; the other keys are absent
GateInit ==
  /\ costLatest = Absent
  /\ \E g \in Names : \E v \in GarbageValues :
       cooldown = [n \in Names |-> IF n = g THEN <<v>> ELSE Absent]
  /\ queue = <<>>
  /\ now = 0
  /\ faults = 0
  /\ nposted = 0
  /\ kind = [r \in Reqs |-> "none"]
  /\ hpc = [r \in Reqs |-> "idle"]
  /\ payload = [r \in Reqs |-> NoPayload]
  /\ resp = [r \in Reqs |-> NewResponse]
  /\ tpc = [r \in Reqs |-> "none"]
  /\ idx = [r \in Reqs |-> 0]
  /\ loc = [r \in Reqs |-> NoLoc]
  /\ expired = [r \in Reqs |-> FALSE]
  /\ pubLog = <<>>
  /\ overlap = {}
  /\ cdLost = {}
  /\ evalIn = NoEval
  /\ evalOut = NoReason

GateSpec == GateInit /\ [][CostNext]_vars

\* ------------------------------------------- stand-alone pure evaluations
ReqVals == {0, 100}

UsageVals == {0, 10, 49, 50, 59, 60, 85, 86}

PredVals == {0, 59, 60, 90, 91}

EvalDeployments ==
  { CostDeployment("a", Resources(rc, rm), Resources(uc, um), NilPtr) :
      rc \in ReqVals, rm \in ReqVals, uc \in UsageVals, um \in UsageVals }

EvalForecasts ==
  { ForecastDeployment("a", Resources(pc, pm)) : pc \in PredVals, pm \in PredVals }

EvalInputs ==
  { [mode |-> "cost", c |-> c] : c \in EvalDeployments }
  \cup { [mode |-> "validate", c |-> c] : c \in EvalDeployments }
  \cup { [mode |-> "forecast", c |-> c, f |-> f] :
           c \in EvalDeployments, f \in EvalForecasts }

EvalInit ==
  /\ InitWith(Absent)
  /\ evalIn \in EvalInputs
  /\ evalOut = "pending"

EvalFrame == UNCHANGED <<storeVars, now, faults, reqVars, taskVars, histVars, evalIn>>

\* one iteration of CheckCostThreshold on evalIn.c
EvalCost ==
  /\ evalIn.mode = "cost"
  /\ evalOut = "pending"
  /\ evalOut' = CostReason(evalIn.c)
  /\ EvalFrame

\* evaluateForecastLogic on evalIn.f against evalIn.c
EvalForecast ==
  /\ evalIn.mode = "forecast"
  /\ evalOut = "pending"
  /\ evalOut' = evaluateForecastLogic(evalIn.f, evalIn.c)
  /\ EvalFrame

\* Validator.Validate on a cost payload whose only deployment is evalIn.c
EvalValidate ==
  /\ evalIn.mode = "validate"
  /\ evalOut = "pending"
  /\ evalOut' = IF ValidateCostPayload(
                     CostPayload(TS, "default", ClusterInfo(3, 12), <<evalIn.c>>))
                THEN "valid" ELSE "invalid"
  /\ EvalFrame

EvalNext == EvalCost \/ EvalForecast \/ EvalValidate

EvalSpec == EvalInit /\ [][EvalNext]_vars

\* ======================================================================
\* Properties
\* ======================================================================
CostEntries(n) ==
  {i \in 1..Len(pubLog) : pubLog[i].kind = "cost" /\ pubLog[i].name = n}

C1_WitnessSuppressed ==
  /\ nposted = 2
  /\ kind[1] = "cost" /\ kind[2] = "cost"
  /\ tpc[1] = "done" /\ tpc[2] = "done"
  /\ payload[1] = payload[2]
  /\ now < CooldownSecs
  /\ faults = 0
  /\ overlap = {} /\ cdLost = {}
  /\ Len(pubLog) >= 1
  /\ \A i \in 1..Len(pubLog) : pubLog[i].req = 1

\* the priority chain of cost evaluation, written from the thresholds
ChainReason(d) ==
  LET rC == d.CurrentRequests.CPUCores
      uC == d.CurrentUsage.CPUCores
      rM == d.CurrentRequests.MemoryMB
      uM == d.CurrentUsage.MemoryMB
  IN  CASE 2 * (rM - uM) > rM -> "High Memory Waste"
        [] 2 * (rM - uM) <= rM /\ 20 * uM > 17 * rM -> "High Memory Risk"
        [] 2 * (rM - uM) <= rM /\ 20 * uM <= 17 * rM /\ 2 * (rC - uC) > rC
             -> "High CPU Waste"
        [] 2 * (rM - uM) <= rM /\ 20 * uM <= 17 * rM /\ 2 * (rC - uC) <= rC
             /\ 20 * uC > 17 * rC -> "High CPU Risk"
        [] OTHER -> NoReason

ForecastLabels ==
  { "Predicted Capacity Risk (CPU)", "Predicted Safe Downscale (CPU)",
    "Predicted Capacity Risk (Memory)", "Predicted Safe Downscale (Memory)" }

EntriesOf(r) == {i \in 1..Len(pubLog) : pubLog[i].req = r}

\* request r is a forecast request and this step is one of its handler or of
\* its goroutine
ForecastStep(r) ==
  /\ kind'[r] = "forecast"
  /\ hpc'[r] # hpc[r] \/ tpc'[r] # tpc[r] \/ idx'[r] # idx[r]

\* this step is executeForecastPush of request r
ForecastPushStep(r) ==
  kind[r] = "forecast" /\ tpc[r] = "fpush" /\ idx'[r] # idx[r]

\* C3: a forecast-derived trigger publishes its job whatever trigger:cooldown
\* holds for the name (the push goes through whenever the LPUSH itself
\* succeeds), and no step of a forecast request creates or changes a
\* trigger:cooldown key, so later cost-derived decisions see the same keys.
C3_ForecastBypassesCooldown ==
  [][\A r \in Reqs :
       /\ ForecastStep(r) => cooldown' = cooldown
       /\ (ForecastPushStep(r) /\ ~expired[r] /\ faults' = faults) =>
            /\ Len(queue') = Len(queue) + 1
            /\ Tail(queue') = queue
            /\ Head(queue').reason \in ForecastLabels
            /\ Head(queue').deployments.name = payload[r].Deployments[idx[r]].Name
    ]_vars

\* a forecast job was published for a name whose cooldown key was fresh (a
\* cost-derived job for it had been published less than 1800 s before), and
\* the key still holds the time of that cost publish
C3_Witness ==
  \E i, j \in 1..Len(pubLog) :
    /\ j < i
    /\ pubLog[j].kind = "cost"
    /\ pubLog[i].kind = "forecast"
    /\ pubLog[i].name = pubLog[j].name
    /\ pubLog[i].time - pubLog[j].time < CooldownSecs
    /\ cooldown[pubLog[j].name] = <<FormatInt(pubLog[j].time)>>

\* request r passed decoding and validation and FetchPayload returned an error
FetchFailed(r) ==
  /\ kind[r] = "forecast"
  /\ hpc[r] = "done"
  /\ tpc[r] = "none"
  /\ payload[r] # NoPayload
  /\ ValidateForecastPayload(payload[r])

\* C4 as stated: a valid forecast posted while cost:latest is absent (or
\* while the read fails) is answered 500, starts no evaluation and publishes
\* no job.
C4_ForecastWithoutSnapshotIs500 ==
  \A r \in Reqs :
    FetchFailed(r) =>
      /\ resp[r].status = StatusInternalServerError
      /\ EntriesOf(r) = {}

\* C5: a cost or forecast payload whose namespace is not "default" is
\* answered 400, and handling it performs no store operation: cost:latest,
\* the cooldown keys and the queue stay as they are and no goroutine starts.
C5_BadNamespaceRejected ==
  /\ [](\A r \in Reqs :
          (payload[r] # NoPayload /\ payload[r].Namespace # "default") =>
            /\ resp[r].status = StatusBadRequest
            /\ hpc[r] = "done"
            /\ tpc[r] = "none"
            /\ EntriesOf(r) = {})
  /\ [][/\ \A b \in CostBodies :
             (b.wellformed /\ b.json.namespace # "default" /\ handleCostEngine(b))
               => UNCHANGED <<costLatest, cooldown, queue, faults>>
        /\ \A b \in ForecastBodies :
             (b.wellformed /\ b.json.namespace # "default" /\ handleForecast(b))
               => UNCHANGED <<costLatest, cooldown, queue, faults>>
       ]_vars

\* a cost post and a forecast post naming kube-system were both answered 400
C5_Witness ==
  \E r, q \in Reqs :
    /\ kind[r] = "cost" /\ kind[q] = "forecast"
    /\ payload[r] # NoPayload /\ payload[r].Namespace = "kube-system"
    /\ payload[q] # NoPayload /\ payload[q].Namespace = "kube-system"
    /\ resp[r].status = StatusBadRequest
    /\ resp[q].status = StatusBadRequest

\* this step is the cost handler of a new request r whose SET failed
CostSaveFailedStep(r) ==
  /\ kind[r] = "none"
  /\ kind'[r] = "cost"
  /\ faults' = faults + 1

\* C6: when the write of cost:latest fails, the handler answers 500 with the
\* body "Failed to save" (http.Error ends it with a newline), no goroutine
\* is spawned, and nothing is published or written to a cooldown key for
\* that request.
C6_SaveFailureIs500 ==
  /\ [](\A r \in Reqs :
          (kind[r] = "cost" /\ resp[r].status = StatusInternalServerError) =>
            /\ resp[r].body = <<"Failed to save", "\n">>
            /\ hpc[r] = "done"
            /\ tpc[r] = "none"
            /\ EntriesOf(r) = {})
  /\ [][\A r \in Reqs :
          CostSaveFailedStep(r) =>
            /\ resp'[r].status = StatusInternalServerError
            /\ tpc'[r] = "none"
            /\ UNCHANGED <<costLatest, cooldown, queue>>
       ]_vars

\* a valid cost payload was answered 500 and the run went on to its end
C6_Witness ==
  \E r \in Reqs :
    /\ kind[r] = "cost"
    /\ payload[r] # NoPayload
    /\ ValidateCostPayload(payload[r])
    /\ resp[r].status = StatusInternalServerError
    /\ nposted = MaxReq
    /\ \A q \in Reqs : hpc[q] = "done" /\ tpc[q] \in {"none", "done"}

\* C7 as stated: a cost payload whose deployment has current_usage.cpu_cores
\* or current_usage.memory_mb equal to 0, everything else valid, passes
\* validation.
C7_ZeroUsageAccepted ==
  ( /\ evalIn.mode = "validate"
    /\ evalOut # "pending"
    /\ evalIn.c.CurrentRequests.CPUCores > 0
    /\ evalIn.c.CurrentRequests.MemoryMB > 0
    /\ evalIn.c.CurrentUsage.CPUCores >= 0
    /\ evalIn.c.CurrentUsage.MemoryMB >= 0 ) => evalOut = "valid"

\* the CPU branch of forecast evaluation produces a trigger
CpuBranchFires(f, c) ==
  LET rC == c.CurrentRequests.CPUCores
      uC == c.CurrentUsage.CPUCores
      pC == f.PredictPeak24h.CPUCores
  IN  rC > 0 /\ (10 * pC > 9 * rC \/ (10 * (rC - uC) > 4 * rC /\ 10 * pC < 6 * rC))

\* C8 as stated: when the CPU branch produces nothing, rM > 0 and
\* pM <= 0.9 rM, 'Predicted Safe Downscale (Memory)' is the outcome exactly
\* when (rM - uM)/rM > 0.40 and pM < 0.6 rM, uM being the snapshot's
\* current_usage.memory_mb.  The snapshot deployment and the forecast entry
\* are ones that validation lets through.
C8_MemoryDownscaleUsesUsage ==
  ( /\ evalIn.mode = "forecast"
    /\ evalOut # "pending"
    /\ ValidateCostDeployment(evalIn.c)
    /\ ValidateForecastDeployment(evalIn.f)
    /\ ~CpuBranchFires(evalIn.f, evalIn.c)
    /\ evalIn.c.CurrentRequests.MemoryMB > 0
    /\ 10 * evalIn.f.PredictPeak24h.MemoryMB <= 9 * evalIn.c.CurrentRequests.MemoryMB )
  => ( evalOut = "Predicted Safe Downscale (Memory)"
       <=> /\ 10 * (evalIn.c.CurrentRequests.MemoryMB - evalIn.c.CurrentUsage.MemoryMB)
                > 4 * evalIn.c.CurrentRequests.MemoryMB
           /\ 10 * evalIn.f.PredictPeak24h.MemoryMB
                < 6 * evalIn.c.CurrentRequests.MemoryMB )

C10_ForecastNeverWritesSnapshot ==
  [][\A r \in Reqs : ForecastStep(r) => costLatest' = costLatest]_vars

\* a forecast evaluation published a job and ended, and cost:latest still
\* holds the snapshot that evaluation was given
C10_Witness ==
  \E r \in Reqs :
    /\ kind[r] = "forecast"
    /\ tpc[r] = "done"
    /\ EntriesOf(r) # {}
    /\ costLatest # Absent

\* the evaluation hands a reason to handleTrigger or executeForecastPush:
\* a job for evalIn.c is published if the store takes it
EvalPublishes == evalIn.mode \in {"cost", "forecast"} /\ evalOut \notin {"pending", NoReason}

\* C11: no job, cost-derived or forecast-derived, references a deployment
\* whose current_requests.cpu_cores and current_requests.memory_mb are both
\* 0: on such a deployment neither evaluation produces a reason.
C11_NoJobForZeroRequests ==
  EvalPublishes =>
    ~(evalIn.c.CurrentRequests.CPUCores = 0 /\ evalIn.c.CurrentRequests.MemoryMB = 0)

\* a forecast evaluation produced a reason for a deployment one of whose
\* requests is 0 and the other is not
C11_Witness ==
  /\ EvalPublishes
  /\ evalIn.mode = "forecast"
  /\ evalIn.c.CurrentRequests.CPUCores = 0
  /\ evalIn.c.CurrentRequests.MemoryMB > 0

\* the value v of cost:latest is present and json.Unmarshal into a
\* CostPayload reads all of it
Decodable(v) ==
  /\ v # Absent
  /\ MarshalCostPayload(UnmarshalCostPayload(v[1])) = v[1]

\* C12: for every request answered 201, on the cost path cost:latest holds a
\* value decodable as a CostPayload when the response is produced (and
\* after); on the forecast path the handler's read of cost:latest returned
\* a decodable snapshot, which is the one its goroutine was started with.
C12_CreatedImpliesSnapshot ==
  /\ [](\A r \in Reqs :
          (kind[r] = "cost" /\ resp[r].status = StatusCreated) => Decodable(costLatest))
  /\ [](\A r \in Reqs :
          (kind[r] = "forecast" /\ resp[r].status = StatusCreated) => tpc[r] # "none")
  /\ [][\A r \in Reqs :
          (kind[r] = "none" /\ kind'[r] = "forecast" /\ tpc'[r] # "none") =>
            /\ Decodable(costLatest)
            /\ loc'[r].snapshot = costLatest[1]
       ]_vars

\* a cost request and, after it, a forecast request were both answered 201
C12_Witness ==
  \E r, q \in Reqs :
    /\ r < q
    /\ kind[r] = "cost" /\ resp[r].status = StatusCreated
    /\ kind[q] = "forecast" /\ resp[q].status = StatusCreated

\* this step is the cost handler of a new request r, up to the return of
\* SaveCostPayload, and no store command failed in it
CostIngestStep(r) ==
  kind[r] = "none" /\ kind'[r] = "cost" /\ faults' = faults

\* C13: a well-formed, valid cost payload posted while the store is
\* reachable is answered with status 201 and with the body
\* "Cost payload accepted" and nothing else.
C13_ValidCostIs201 ==
  /\ [][\A r \in Reqs :
          (CostIngestStep(r) /\ payload'[r] # NoPayload
             /\ ValidateCostPayload(payload'[r])) =>
            /\ hpc'[r] = "respond"
            /\ tpc'[r] = "loop"
            /\ resp'[r] = NewResponse
       ]_vars
  /\ [](\A r \in Reqs :
          (kind[r] = "cost" /\ hpc[r] = "done" /\ tpc[r] # "none") =>
            resp[r] = [status |-> StatusCreated, body |-> <<"Cost payload accepted">>])

\* a valid cost payload was saved and its handler has answered
C13_Witness ==
  \E r \in Reqs :
    /\ kind[r] = "cost"
    /\ hpc[r] = "done"
    /\ tpc[r] # "none"
    /\ ValidateCostPayload(payload[r])
    /\ resp[r].status = StatusCreated

\* this step is the forecast handler of a new request r, up to the return
\* of FetchPayload, no store command failed in it and cost:latest is present
ForecastIngestStep(r) ==
  /\ kind[r] = "none" /\ kind'[r] = "forecast"
  /\ faults' = faults
  /\ costLatest # Absent

\* C14: a well-formed, valid forecast payload posted while cost:latest is
\* present and the store is reachable is answered with status 201 and with
\* the body "Forecast payload accepted" and nothing else.
C14_ValidForecastIs201 ==
  /\ [][\A r \in Reqs :
          (ForecastIngestStep(r) /\ payload'[r] # NoPayload
             /\ ValidateForecastPayload(payload'[r])) =>
            /\ hpc'[r] = "respond"
            /\ tpc'[r] = "floop"
            /\ resp'[r] = NewResponse
       ]_vars
  /\ [](\A r \in Reqs :
          (kind[r] = "forecast" /\ hpc[r] = "done" /\ tpc[r] # "none") =>
            resp[r] = [status |-> StatusCreated, body |-> <<"Forecast payload accepted">>])

\* a valid forecast payload, posted after a cost ingest of this run had
\* succeeded, has been answered
C14_Witness ==
  \E r, q \in Reqs :
    /\ q < r
    /\ kind[q] = "cost" /\ tpc[q] # "none"
    /\ kind[r] = "forecast"
    /\ hpc[r] = "done"
    /\ tpc[r] # "none"
    /\ resp[r].status = StatusCreated

\* the longest deployments sequence among the cost bodies
MaxDeployments == 2

\* positions of the queue holding a job with this reason for this name
JobsFor(reason, n) ==
  {i \in 1..Len(queue) : queue[i].reason = reason /\ queue[i].deployments.name = n}

\* request r is an accepted cost request whose evaluation has not yet looked
\* at its deployment number i, that deployment has memory waste above 0.50,
\* and no cooldown key exists for its name
WasteAccepted(r, i) ==
  /\ kind[r] = "cost"
  /\ tpc[r] = "loop"
  /\ idx[r] <= i
  /\ i <= Len(payload[r].Deployments)
  /\ ~expired[r]
  /\ ChainReason(payload[r].Deployments[i]) = "High Memory Waste"
  /\ cooldown[payload[r].Deployments[i].Name] = Absent

\* the name of deployment number i of request r ("" when there is none)
NameAt(r, i) ==
  IF i \in 1..Len(payload[r].Deployments) THEN payload[r].Deployments[i].Name ELSE ""

\* exactly one High Memory Waste job for n is queued and n's cooldown key is set
OneWasteJob(n) ==
  /\ n \in Names
  /\ Cardinality(JobsFor("High Memory Waste", n)) = 1
  /\ cooldown[n] # Absent

\* another cost evaluation whose payload names n is running
OtherEvaluation(r, n) ==
  \E q \in Reqs \ {r} :
    /\ kind[q] = "cost"
    /\ Running(q)
    /\ \E j \in 1..Len(payload[q].Deployments) : payload[q].Deployments[j].Name = n

\* deployment number i is the first of its name in the payload of r
FirstOfName(r, i) ==
  \A j \in 1..(i - 1) : NameAt(r, j) # NameAt(r, i)

RECURSIVE ConsumerReceives(_)
ConsumerReceives(q) ==
  IF q = <<>> THEN <<>>
  ELSE <<q[Len(q)]>> \o ConsumerReceives(SubSeq(q, 1, Len(q) - 1))

\* C16: every change of queue:agent:jobs made by the Hub puts one job at
\* the head and leaves the jobs already queued in place (none removed, none
\* reordered), so a consumer popping from the tail receives the jobs in the
\* order in which their publishes took effect.
C16_QueueIsFifo ==
  /\ [][queue' # queue => (Len(queue') = Len(queue) + 1 /\ Tail(queue') = queue)]_vars
  /\ [](LET got == ConsumerReceives(queue)
        IN  /\ Len(got) = Len(pubLog)
            /\ \A i \in 1..Len(pubLog) :
                 /\ got[i].reason = pubLog[i].reason
                 /\ got[i].deployments.name = pubLog[i].name)

\* three jobs are queued, the oldest and the newest of different kinds
C16_Witness ==
  /\ Len(queue) >= 3
  /\ pubLog[1].kind # pubLog[Len(pubLog)].kind
  /\ queue[1].reason # queue[Len(queue)].reason
  /\ queue[1].deployments.name # queue[Len(queue)].deployments.name

\* the body of request r did not decode
Undecoded(r) == kind[r] # "none" /\ payload[r] = NoPayload

\* the body of request r decoded to a payload with no deployments, or with
\* a deployment that fails validation
BadDeployments(r) ==
  /\ kind[r] # "none"
  /\ payload[r] # NoPayload
  /\ \/ Len(payload[r].Deployments) = 0
     \/ \E i \in 1..Len(payload[r].Deployments) :
          IF kind[r] = "cost"
          THEN ~ValidateCostDeployment(payload[r].Deployments[i])
          ELSE ~ValidateForecastDeployment(payload[r].Deployments[i])

\* this step is the handler of a new request r
IngestStep(r) == kind[r] = "none" /\ kind'[r] # "none"

\* C17: a payload that fails to decode, has an empty deployments sequence or
\* contains a deployment that fails validation is answered with 400, and
\* handling it performs no store operation: no snapshot write, no cooldown
\* change, no publish, no goroutine.
C17_InvalidPayloadRejected ==
  /\ [](\A r \in Reqs :
          (Undecoded(r) \/ BadDeployments(r)) =>
            /\ resp[r].status = StatusBadRequest
            /\ hpc[r] = "done"
            /\ tpc[r] = "none"
            /\ EntriesOf(r) = {})
  /\ [][\A r \in Reqs :
          (IngestStep(r) /\ (Undecoded(r)' \/ BadDeployments(r)')) =>
            UNCHANGED <<costLatest, cooldown, queue, faults>>
       ]_vars

\* a cost payload with a deployment that fails validation and a forecast
\* payload with such a deployment, or with none, were both answered 400
C17_Witness ==
  \E r, q \in Reqs :
    /\ kind[r] = "cost" /\ BadDeployments(r) /\ Len(payload[r].Deployments) > 0
    /\ kind[q] = "forecast" /\ BadDeployments(q)
    /\ resp[r].status = StatusBadRequest
    /\ resp[q].status = StatusBadRequest

\* the cost requests whose SET of cost:latest succeeded
Savers == {q \in Reqs : kind[q] = "cost" /\ tpc[q] # "none"}

\* q is the request that wrote cost:latest last
LastSaver(q) == q \in Savers /\ \A p \in Savers : p <= q

\* C18: posting again the valid cost payload that was saved last leaves
\* cost:latest exactly as the first post left it.
C18_SnapshotWriteIdempotent ==
  [][\A r, q \in Reqs :
       (IngestStep(r) /\ kind'[r] = "cost" /\ LastSaver(q) /\ payload'[r] = payload[q])
         => costLatest' = costLatest
    ]_vars

\* the same valid payload was saved twice, the second time after the clock
\* had advanced
C18_Witness ==
  \E r, q \in Savers :
    /\ q < r
    /\ payload[r] = payload[q]
    /\ now > 0
    /\ idx[r] = 1
    /\ tpc[q] = "done"
    /\ costLatest = <<MarshalCostPayload(payload[q])>>

\* C19: the Hub never deletes cost:latest or a trigger:cooldown key: a key
\* that exists in a state exists in the next; hence once a cost ingest has
\* succeeded cost:latest is present ever after and a later forecast ingest
\* whose read succeeds is never turned away as snapshot-absent.
C19_KeysNeverDeleted ==
  /\ [][/\ costLatest # Absent => costLatest' # Absent
        /\ \A n \in Names : cooldown[n] # Absent => cooldown'[n] # Absent
       ]_vars
  /\ [](Savers # {} => costLatest # Absent)
  /\ [][\A r \in Reqs :
          (IngestStep(r) /\ kind'[r] = "forecast" /\ Savers # {}
             /\ payload'[r] # NoPayload /\ ValidateForecastPayload(payload'[r])
             /\ faults' = faults)
            => tpc'[r] = "floop"
       ]_vars

\* a cost job was published and its cooldown key set, the clock ran past the
\* cooldown window, a forecast job was published for the same name, and
\* both keys are still there
C19_Witness ==
  \E i, j \in 1..Len(pubLog) :
    /\ i < j
    /\ pubLog[i].kind = "cost"
    /\ pubLog[j].kind = "forecast"
    /\ pubLog[j].name = pubLog[i].name
    /\ pubLog[j].time - pubLog[i].time >= CooldownSecs
    /\ cooldown[pubLog[i].name] # Absent
    /\ costLatest # Absent

\* the last deployment named n in the JSON snapshot j
LastNamed(j, n) ==
  j.deployments[CHOOSE i \in 1..Len(j.deployments) :
                  /\ j.deployments[i].name = n
                  /\ \A k \in (i + 1)..Len(j.deployments) : j.deployments[k].name # n]

\* C20: a forecast-derived job, as it lies on the queue, carries the name of
\* the forecast entry, the current_requests and current_usage of the
\* snapshot deployment of that name (the last one, when the snapshot has
\* several), predicted_peak_24h equal to the forecast entry's prediction, and
\* the namespace and cluster_info of the snapshot the goroutine was given.
C20_ForecastJobIsMergedSnapshot ==
  [][\A r \in Reqs :
       (ForecastPushStep(r) /\ queue' # queue) =>
         LET job == Head(queue')
             f == payload[r].Deployments[idx[r]]
             snap == loc[r].snapshot
         IN  /\ job.namespace = snap.namespace
             /\ job.cluster_info = snap.cluster_info
             /\ DOMAIN job.deployments =
                  {"name", "current_requests", "current_usage", "predicted_peak_24h"}
             /\ job.deployments.name = f.Name
             /\ job.deployments.current_requests = LastNamed(snap, f.Name).current_requests
             /\ job.deployments.current_usage = LastNamed(snap, f.Name).current_usage
             /\ job.deployments.predicted_peak_24h =
                  [cpu_cores |-> f.PredictPeak24h.CPUCores,
                   memory_mb |-> f.PredictPeak24h.MemoryMB]
    ]_vars

\* a forecast job is queued for a name the snapshot holds twice, with the
\* usage of the second of them and with the forecast's prediction
C20_Witness ==
  \E i \in 1..Len(queue) :
    /\ queue[i].reason \in ForecastLabels
    /\ queue[i].deployments.name = "a"
    /\ queue[i].deployments.current_usage = [cpu_cores |-> 10, memory_mb |-> 60]
    /\ queue[i].deployments.predicted_peak_24h = [cpu_cores |-> 95, memory_mb |-> 50]

\* the JSON deployment j has the key predicted_peak_24h
HasPredicted(j) == "predicted_peak_24h" \in DOMAIN j

\* C21 as stated: the value stored under cost:latest holds no deployment
\* with predicted_peak_24h, and no cost-derived job on the queue carries one.
C21_PredictedNeverStored ==
  /\ costLatest # Absent =>
       \A i \in 1..Len(costLatest[1].deployments) :
         ~HasPredicted(costLatest[1].deployments[i])
  /\ \A i \in 1..Len(queue) :
       queue[i].reason \notin ForecastLabels => ~HasPredicted(queue[i].deployments)

\* memory utilisation or CPU utilisation of d is above 85%
StabilityCondition(d) ==
  \/ 100 * d.CurrentUsage.MemoryMB > 85 * d.CurrentRequests.MemoryMB
  \/ 100 * d.CurrentUsage.CPUCores > 85 * d.CurrentRequests.CPUCores

RiskLabels == {"High Memory Risk", "High CPU Risk"}

\* C22 as stated: every cost-derived job published for a deployment whose
\* memory or CPU utilisation is above 85% carries a risk reason, never a
\* waste reason.
C22_StabilityBeforeEfficiency ==
  \A i \in 1..Len(pubLog) :
    (pubLog[i].kind = "cost"
       /\ StabilityCondition(payload[pubLog[i].req].Deployments[pubLog[i].idx]))
      => pubLog[i].reason \in RiskLabels

CostLabels ==
  {"High Memory Waste", "High Memory Risk", "High CPU Waste", "High CPU Risk"}

CostPushStep(r) ==
  /\ kind[r] = "cost"
  /\ tpc[r] = "push"
  /\ tpc'[r] # "push"
  /\ ~expired[r]
  /\ faults' = faults

\* C24: the cooldown read and the cooldown write of a cost evaluation are
\* separate steps and nothing is checked in between: an evaluation that has
\* read the key as absent or expired publishes its job whatever the key
\* holds by then and whatever other evaluation is at the same point for the
\* same deployment.  (That two evaluations do get there together, and leave
\* two jobs less than 1800 seconds apart, is the witness.)
C24_CheckThenSetNotAtomic ==
  [][\A r \in Reqs :
       CostPushStep(r) =>
         /\ Len(queue') = Len(queue) + 1
         /\ Tail(queue') = queue
         /\ Head(queue').deployments.name = CurrentDeployment(r).Name
         /\ Head(queue').reason = loc[r].reason
    ]_vars

\* two cost evaluations were between cooldown read and cooldown write for
\* the same name at the same time, no store command failed, and both
\* published: two cost-derived jobs for the name, from different requests,
\* less than 1800 seconds apart
C24_Witness ==
  \E n \in overlap : \E i, j \in CostEntries(n) :
    /\ i < j
    /\ pubLog[i].req # pubLog[j].req
    /\ pubLog[j].time - pubLog[i].time < CooldownSecs
    /\ faults = 0
    /\ cdLost = {}
    /\ Cardinality({k \in 1..Len(queue) : queue[k].deployments.name = n}) >= 2

\* the last publish of request r was for its deployment number idx[r],
\* named n, as a cost-derived job stamped with the clock reading t
JustPublished(r, n, t) ==
  /\ EntriesOf(r) # {}
  /\ LET e == pubLog[CHOOSE i \in EntriesOf(r) : \A j \in EntriesOf(r) : j <= i]
     IN  /\ e.kind = "cost"
         /\ e.idx = idx[r]
         /\ e.name = n
         /\ e.time = t

\* C25: trigger:cooldown:<d> changes only in the step of a cost evaluation
\* that follows that evaluation's own successful publish of a job for d,
\* with nothing of that evaluation in between, and the value written is the
\* clock reading taken after that publish.  Every other step (suppression,
\* failed publish, failed cooldown read, forecast publish, rejected request,
\* deadline expiry, clock) leaves every cooldown key as it is.
C25_CooldownWrittenOnlyAfterPublish ==
  /\ [][\A n \in Names :
          cooldown'[n] # cooldown[n] =>
            \E r \in Reqs :
              /\ kind[r] = "cost"
              /\ tpc[r] = "setcd"
              /\ tpc'[r] # "setcd"
              /\ JustPublished(r, n, loc[r].stamp)
              /\ cooldown'[n] = <<FormatInt(loc[r].stamp)>>
       ]_vars
  /\ [](\A r \in Reqs :
          tpc[r] = "setcd" =>
            kind[r] = "cost" /\ JustPublished(r, CurrentDeployment(r).Name, loc[r].stamp))

\* a cost evaluation is over in which the trigger for one deployment was
\* lost to a failed store command (no job for it, its key still absent)
\* and the trigger for another was published and its key stamped
C25_Witness ==
  \E r \in Reqs : \E i, j \in 1..Len(payload[r].Deployments) :
    /\ kind[r] = "cost"
    /\ tpc[r] = "done"
    /\ ~expired[r]
    /\ faults = 1
    /\ cdLost = {}
    /\ ChainReason(payload[r].Deployments[i]) # NoReason
    /\ cooldown[payload[r].Deployments[i].Name] = Absent
    /\ CostEntries(payload[r].Deployments[i].Name) = {}
    /\ \E k \in EntriesOf(r) :
         /\ pubLog[k].idx = j
         /\ cooldown[pubLog[k].name] = <<FormatInt(pubLog[k].time)>>

\* the timestamp stored under trigger:cooldown:<n> (the key is present)
Stored(cd, n) == ParseInt(cd[n][1])

\* C26 as stated: for every deployment the stored cooldown timestamp never
\* decreases, under any interleaving of concurrent cost evaluations.
C26_CooldownNeverDecreases ==
  [][\A n \in Names :
       (cooldown[n] # Absent /\ cooldown'[n] # Absent)
         => Stored(cooldown', n) >= Stored(cooldown, n)
    ]_vars

\* C26 amended: the stored cooldown timestamp of a deployment never
\* decreases unless two cost evaluations were between their cooldown read
\* and their cooldown write for it at the same time; and in every case the
\* stored value is a decimal clock reading that is not in the future.
C26_CooldownNeverDecreasesWithoutOverlap ==
  /\ [][\A n \in Names \ overlap :
          (cooldown[n] # Absent /\ cooldown'[n] # Absent)
            => Stored(cooldown', n) >= Stored(cooldown, n)
       ]_vars
  /\ [](\A n \in Names :
          cooldown[n] # Absent => (ParseIntOk(cooldown[n][1]) /\ Stored(cooldown, n) <= now))

\* the key of a name was stamped, the cooldown window went by, and a later
\* evaluation that did not overlap with the first stamped it again, higher
C26_Witness ==
  \E n \in Names \ overlap : \E i, j \in CostEntries(n) :
    /\ i < j
    /\ pubLog[i].time < pubLog[j].time
    /\ cooldown[n] = <<FormatInt(pubLog[j].time)>>
    /\ cdLost = {}

\* this step is the loop iteration of cost request r for a deployment that
\* crosses a threshold, with the deadline not passed and the cooldown GET
\* answered
GateStep(r) ==
  /\ kind[r] = "cost"
  /\ tpc[r] = "loop"
  /\ ~expired[r]
  /\ tpc'[r] # "loop" \/ idx'[r] # idx[r]
  /\ ChainReason(CurrentDeployment(r)) # NoReason
  /\ faults' = faults

\* the key of n is absent, or holds a timestamp at least 1800 seconds old
GateOpen(n) == cooldown[n] = Absent \/ now - Stored(cooldown, n) >= CooldownSecs

\* C27: for a cost-derived trigger on d with stored cooldown last and
\* current time now: when the key is absent or now - last >= 1800 (1800
\* itself included) the evaluation goes on to publish, the job is queued and
\* the key is set to the clock reading taken at the publish; when
\* now - last < 1800 nothing is published for d and the queue and the key
\* stay as they are.
C27_GatingDecision ==
  [][\A r \in Reqs :
       /\ GateStep(r) =>
            IF GateOpen(CurrentDeployment(r).Name)
            THEN /\ tpc'[r] = "push"
                 /\ loc'[r].reason = ChainReason(CurrentDeployment(r))
                 /\ idx'[r] = idx[r]
            ELSE /\ tpc'[r] \in {"loop", "done"}
                 /\ idx'[r] = idx[r] + 1
                 /\ UNCHANGED <<queue, cooldown, pubLog>>
       /\ CostPushStep(r) =>
            /\ Len(queue') = Len(queue) + 1
            /\ tpc'[r] = "setcd"
            /\ loc'[r].stamp = now
       /\ (tpc[r] = "setcd" /\ tpc'[r] # "setcd" /\ ~expired[r] /\ faults' = faults) =>
            cooldown'[CurrentDeployment(r).Name] = <<FormatInt(loc[r].stamp)>>
    ]_vars

\* a job for a name was published at time 0; an evaluation that started
\* exactly 1800 seconds later published for its first deployment of that
\* name, set the key to 1800, and suppressed its second deployment of the
\* same name (now - last = 0)
C27_Witness ==
  \E r \in Reqs : \E i \in 1..Len(pubLog) :
    /\ kind[r] = "cost"
    /\ tpc[r] = "done"
    /\ ~expired[r]
    /\ faults = 0
    /\ Len(payload[r].Deployments) = 2
    /\ payload[r].Deployments[1].Name = payload[r].Deployments[2].Name
    /\ ChainReason(payload[r].Deployments[2]) # NoReason
    /\ pubLog[i].req # r
    /\ pubLog[i].name = payload[r].Deployments[1].Name
    /\ pubLog[i].time = 0
    /\ \A k \in EntriesOf(r) : pubLog[k].idx = 1 /\ pubLog[k].time = CooldownSecs
    /\ EntriesOf(r) # {}
    /\ cooldown[payload[r].Deployments[1].Name] = <<FormatInt(CooldownSecs)>>

\* the goroutine of request r is at the top of a loop iteration
AtLoopTop(r) == tpc[r] \in {"loop", "floop"}

\* the goroutine of request r is about to publish for its current entry
AtPublish(r) == tpc[r] \in {"push", "fpush"}

\* this step is one of the goroutine of request r
TaskStep(r) == tpc'[r] # tpc[r] \/ idx'[r] # idx[r]

\* C28: once the deadline of an evaluation has passed, the task returns at
\* the top of its next loop iteration without touching the store; it never
\* starts on another deployment, so it publishes nothing for the
\* deployments it had not visited; and neither the expiry nor the return
\* removes a job from the queue or changes a cooldown key (no rollback).
C28_DeadlineStopsAtLoopTop ==
  [][\A r \in Reqs :
       /\ (expired[r] /\ AtLoopTop(r) /\ TaskStep(r)) =>
            /\ tpc'[r] = "done"
            /\ UNCHANGED <<costLatest, cooldown, queue, pubLog>>
       /\ (expired[r] /\ ~AtPublish(r)) => ~AtPublish(r)'
       /\ (expired[r] /\ EntriesOf(r)' # EntriesOf(r)) =>
            /\ AtPublish(r)
            /\ pubLog'[Len(pubLog')].idx = idx[r]
       /\ expired'[r] # expired[r] =>
            /\ expired'[r]
            /\ UNCHANGED <<costLatest, cooldown, queue, pubLog>>
    ]_vars

\* an evaluation of two deployments that both cross a threshold was cut
\* short by its deadline after the first: the job for the first is queued
\* and its cooldown key set, nothing was published for the second
C28_Witness ==
  \E r \in Reqs :
    /\ kind[r] = "cost"
    /\ tpc[r] = "done"
    /\ expired[r]
    /\ idx[r] = 2
    /\ Len(payload[r].Deployments) = 2
    /\ ChainReason(payload[r].Deployments[2]) # NoReason
    /\ payload[r].Deployments[2].Name # payload[r].Deployments[1].Name
    /\ cooldown[payload[r].Deployments[2].Name] = Absent
    /\ Cardinality(EntriesOf(r)) = 1
    /\ \A k \in EntriesOf(r) :
         /\ pubLog[k].idx = 1
         /\ cooldown[pubLog[k].name] = <<FormatInt(pubLog[k].time)>>
         /\ \E q \in 1..Len(queue) : queue[q].deployments.name = pubLog[k].name

\* this step is a publish attempt of the goroutine of request r that failed
PushFailedStep(r) == AtPublish(r) /\ TaskStep(r) /\ pubLog' = pubLog

\* C29: when the LPUSH for a deployment's job fails, nothing is queued, no
\* cooldown key is written, and the goroutine moves to the next entry of
\* its payload: it is at the top of the loop for that entry when there is
\* one and ends only when there is none.
C29_PushFailureContinues ==
  [][\A r \in Reqs :
       PushFailedStep(r) =>
         /\ UNCHANGED <<costLatest, cooldown, queue>>
         /\ idx'[r] = idx[r] + 1
         /\ IF idx[r] < Len(payload[r].Deployments)
            THEN AtLoopTop(r)' ELSE tpc'[r] = "done"
    ]_vars

\* two evaluations of the same payload both passed the cooldown read for
\* its first deployment; the push of one of them failed (it has no job for
\* the first deployment), and that evaluation went on and published the job
\* for its second deployment
C29_Witness ==
  \E r, q \in Reqs :
    /\ r # q
    /\ kind[r] = "cost" /\ kind[q] = "cost"
    /\ payload[r] = payload[q]
    /\ tpc[r] = "done" /\ tpc[q] = "done"
    /\ ~expired[r] /\ ~expired[q]
    /\ faults = 1
    /\ cdLost = {}
    /\ Len(payload[r].Deployments) = 2
    /\ payload[r].Deployments[1].Name # payload[r].Deployments[2].Name
    /\ payload[r].Deployments[1].Name \in overlap
    /\ \A k \in EntriesOf(r) : pubLog[k].idx = 2
    /\ EntriesOf(r) # {}
    /\ \E k \in EntriesOf(q) : pubLog[k].idx = 1

\* this step is the handler of a new cost request r whose SET succeeded
CostSavedStep(r) == IngestStep(r) /\ kind'[r] = "cost" /\ tpc'[r] # "none"

\* C30: cost:latest always holds the payload of the cost ingest whose SET
\* came last, and it changes in no other way; a forecast goroutine works on
\* the string its handler's GET returned, which no later cost ingest
\* changes, and the namespace, cluster_info, requests and usage of every
\* job it publishes are those of that string, whatever cost:latest holds
\* by then.
C30_ForecastUsesItsOwnRead ==
  /\ [](\A q \in Reqs : LastSaver(q) => costLatest = <<MarshalCostPayload(payload[q])>>)
  /\ [][/\ costLatest' # costLatest => \E r \in Reqs : CostSavedStep(r)
        /\ \A r \in Reqs :
             /\ (IngestStep(r) /\ kind'[r] = "forecast" /\ tpc'[r] # "none")
                  => loc'[r].snapshot = costLatest[1]
             /\ (kind[r] = "forecast" /\ Running(r) /\ Running(r)')
                  => loc'[r].snapshot = loc[r].snapshot
             /\ (ForecastPushStep(r) /\ queue' # queue) =>
                  LET job == Head(queue')
                      snap == loc[r].snapshot
                      n == payload[r].Deployments[idx[r]].Name
                  IN  /\ job.namespace = snap.namespace
                      /\ job.cluster_info = snap.cluster_info
                      /\ job.deployments.current_requests = LastNamed(snap, n).current_requests
                      /\ job.deployments.current_usage = LastNamed(snap, n).current_usage
       ]_vars

\* a forecast handler read the snapshot, a cost ingest then replaced
\* cost:latest and its evaluation published a job, and after that the
\* forecast evaluation published a job that carries the cluster_info of the
\* snapshot it had read, not the one stored now
C30_Witness ==
  \E i, j \in 1..Len(pubLog) :
    /\ i < j
    /\ pubLog[i].kind = "cost"
    /\ pubLog[j].kind = "forecast"
    /\ pubLog[i].req > pubLog[j].req
    /\ Len(queue) = Len(pubLog)
    /\ costLatest = <<MarshalCostPayload(payload[pubLog[i].req])>>
    /\ queue[Len(queue) - j + 1].cluster_info # costLatest[1].cluster_info
    /\ queue[Len(queue) - j + 1].reason = pubLog[j].reason

\* this step is one of the goroutine spawned for request r (not the handler
\* step that spawns it)
EvaluationStep(r) == tpc[r] # "none" /\ TaskStep(r)

\* C31 as stated: the handler of an accepted ingest touches the store only
\* for the snapshot write (cost) or the snapshot read (forecast), and every
\* step of the background evaluation happens after the handler has
\* written its response.
C31_EvaluationAfterResponse ==
  [][\A r \in Reqs :
       /\ IngestStep(r) =>
            /\ UNCHANGED <<cooldown, queue>>
            /\ kind'[r] = "forecast" => costLatest' = costLatest
       /\ EvaluationStep(r) => hpc[r] = "done"
    ]_vars

\* the goroutine of request r is in the middle of handling an entry
MidEntry(r) == tpc[r] \in {"push", "setcd", "fpush"}

\* C32: a goroutine walks its payload one entry at a time, in payload
\* order: its index only ever goes up by one, and only when the cooldown
\* read, the publish and the cooldown write of the current entry are over;
\* whatever it publishes or stamps is for the current entry; hence the jobs
\* of one task are published in the order of their entries in the payload.
C32_PayloadOrder ==
  /\ [][\A r \in Reqs :
          EvaluationStep(r) =>
            /\ idx'[r] \in {idx[r], idx[r] + 1}
            /\ idx'[r] # idx[r] => ~MidEntry(r)'
            /\ MidEntry(r)' => idx'[r] = idx[r]
            /\ EntriesOf(r)' # EntriesOf(r) =>
                 /\ pubLog'[Len(pubLog')].idx = idx[r]
                 /\ pubLog'[Len(pubLog')].name = payload[r].Deployments[idx[r]].Name
            /\ \A n \in Names :
                 cooldown'[n] # cooldown[n] => n = payload[r].Deployments[idx[r]].Name
       ]_vars
  /\ [](\A i, j \in 1..Len(pubLog) :
          (i < j /\ pubLog[i].req = pubLog[j].req) => pubLog[i].idx < pubLog[j].idx)
  /\ [](\A r \in Reqs : \A i \in EntriesOf(r) :
          pubLog[i].idx < idx[r] \/ (pubLog[i].idx = idx[r] /\ tpc[r] = "setcd"))

\* one cost task published for its first and then for its second
\* deployment, each followed by its cooldown write, and the job of the
\* second lies nearer the head of the list
C32_Witness ==
  \E r \in Reqs : \E i, j \in EntriesOf(r) :
    /\ kind[r] = "cost"
    /\ tpc[r] = "done"
    /\ i < j
    /\ pubLog[i].idx = 1 /\ pubLog[j].idx = 2
    /\ pubLog[i].name # pubLog[j].name
    /\ cooldown[pubLog[i].name] = <<FormatInt(pubLog[i].time)>>
    /\ cooldown[pubLog[j].name] = <<FormatInt(pubLog[j].time)>>
    /\ Len(queue) = Len(pubLog)
    /\ queue[Len(queue) - j + 1].deployments.name = pubLog[j].name
    /\ queue[Len(queue) - i + 1].deployments.name = pubLog[i].name

\* the JSON snapshot j has a deployment named n
SnapshotNames(j) == {j.deployments[i].name : i \in 1..Len(j.deployments)}

\* this step is the loop iteration of forecast request r for an entry whose
\* name no deployment of its snapshot carries, with the deadline not passed
UnmatchedStep(r) ==
  /\ kind[r] = "forecast"
  /\ tpc[r] = "floop"
  /\ ~expired[r]
  /\ TaskStep(r)
  /\ payload[r].Deployments[idx[r]].Name \notin SnapshotNames(loc[r].snapshot)

\* C33: a forecast entry whose name matches no deployment of the snapshot
\* publishes nothing and changes nothing in the store, and the goroutine
\* goes on to the next entry of the payload (it ends only when the
\* unmatched entry was the last); every forecast job is for a name the
\* snapshot has.
C33_UnmatchedEntrySkipped ==
  [][\A r \in Reqs :
       /\ UnmatchedStep(r) =>
            /\ UNCHANGED <<costLatest, cooldown, queue, pubLog, faults>>
            /\ idx'[r] = idx[r] + 1
            /\ tpc'[r] = IF idx[r] < Len(payload[r].Deployments) THEN "floop" ELSE "done"
       /\ (ForecastPushStep(r) /\ queue' # queue) =>
            Head(queue').deployments.name \in SnapshotNames(loc[r].snapshot)
    ]_vars

\* a forecast of two entries was evaluated against a snapshot that has no
\* deployment of the first entry's name: nothing was published for the
\* first entry, and the job for the second was
C33_Witness ==
  \E r \in Reqs :
    /\ kind[r] = "forecast"
    /\ tpc[r] = "done"
    /\ ~expired[r]
    /\ faults = 0
    /\ Savers = {}
    /\ costLatest # Absent
    /\ Len(payload[r].Deployments) = 2
    /\ payload[r].Deployments[1].Name \notin SnapshotNames(costLatest[1])
    /\ Cardinality(EntriesOf(r)) = 1
    /\ \A k \in EntriesOf(r) :
         pubLog[k].idx = 2 /\ pubLog[k].name = payload[r].Deployments[2].Name

\* the chunk b is among those written to the response w
Wrote(w, b) == \E i \in 1..Len(w.body) : w.body[i] = b

\* C34 as stated: the body "Forecast payload accepted" is written to the
\* response of a forecast request only when decoding, validation and the
\* snapshot fetch all succeeded, and a response that carries an error
\* status carries the error message and its newline and nothing else.
C34_OneOutcomePerForecast ==
  \A r \in Reqs :
    kind[r] = "forecast" =>
      /\ Wrote(resp[r], "Forecast payload accepted") =>
           /\ payload[r] # NoPayload
           /\ ValidateForecastPayload(payload[r])
           /\ tpc[r] # "none"
      /\ resp[r].status \in {StatusBadRequest, StatusInternalServerError} =>
           Len(resp[r].body) = 2

\* the key of n holds a value that does not parse as a decimal integer
Unparsable(n) == cooldown[n] # Absent /\ ~ParseIntOk(cooldown[n][1])

\* this step is the loop iteration of cost request r for a deployment that
\* crosses a threshold, with the deadline not passed, in which the GET of
\* the cooldown key failed or returned a value that does not parse
FailClosedStep(r) ==
  /\ kind[r] = "cost"
  /\ tpc[r] = "loop"
  /\ ~expired[r]
  /\ TaskStep(r)
  /\ ChainReason(CurrentDeployment(r)) # NoReason
  /\ faults' # faults \/ Unparsable(CurrentDeployment(r).Name)

\* C35: when the GET of trigger:cooldown:<d> fails with a store error, or
\* the stored value does not parse as a decimal integer, the trigger for d
\* publishes nothing and leaves the cooldown key as it is, and the
\* evaluation goes on to the next deployment (it ends only when d was the
\* last); no cost-derived job is ever published for a name whose key holds
\* an unparsable value.
C35_FailClosed ==
  /\ [](\A n \in Names : Unparsable(n) => CostEntries(n) = {})
  /\ [][\A r \in Reqs :
          FailClosedStep(r) =>
            /\ UNCHANGED <<queue, cooldown, pubLog>>
            /\ idx'[r] = idx[r] + 1
            /\ tpc'[r] = IF idx[r] < Len(payload[r].Deployments) THEN "loop" ELSE "done"
       ]_vars

\* an evaluation of two deployments ran to its end without a store error:
\* the key of the first holds an unparsable value and got no job, the
\* second was published, and the unparsable value is still in place
C35_Witness ==
  \E r \in Reqs :
    /\ kind[r] = "cost"
    /\ tpc[r] = "done"
    /\ ~expired[r]
    /\ faults = 0
    /\ Len(payload[r].Deployments) = 2
    /\ ChainReason(payload[r].Deployments[1]) # NoReason
    /\ Unparsable(payload[r].Deployments[1].Name)
    /\ Cardinality(EntriesOf(r)) = 1
    /\ \A k \in EntriesOf(r) :
         pubLog[k].idx = 2 /\ pubLog[k].name = payload[r].Deployments[2].Name

\* the goroutine of cost request r is between two deployments, or has
\* ended
BetweenDeployments(r) == kind[r] = "cost" /\ tpc[r] \in {"loop", "done"}

\* C36 as stated: whenever a cost evaluation is between deployments, every
\* job it has published for a deployment d is covered by the key
\* trigger:cooldown:<d>, which holds a value not earlier than the time of
\* the publish; also when the write of the key failed or the deadline
\* passed between the publish and the write.
C36_PublishedJobsCovered ==
  \A r \in Reqs :
    BetweenDeployments(r) =>
      \A k \in EntriesOf(r) :
        /\ cooldown[pubLog[k].name] # Absent
        /\ Stored(cooldown, pubLog[k].name) >= pubLog[k].time

\* cost request r carries two entries of one name that both cross a
\* threshold; its evaluation ran to the end with the deadline not passed,
\* without a store error, and with no other cost evaluation started
RepeatedNameAlone(r) ==
  /\ kind[r] = "cost"
  /\ tpc[r] = "done"
  /\ ~expired[r]
  /\ faults = 0
  /\ \A q \in Reqs \ {r} : kind[q] = "cost" => tpc[q] = "none"
  /\ Len(payload[r].Deployments) = 2
  /\ payload[r].Deployments[1].Name = payload[r].Deployments[2].Name
  /\ ChainReason(payload[r].Deployments[1]) # NoReason
  /\ ChainReason(payload[r].Deployments[2]) # NoReason

\* C37: when one cost payload lists the same name twice and both entries
\* cross a threshold, a single evaluation with successful store operations
\* publishes for the first entry only: exactly one job, with the first
\* entry's reason, and the key holds the time of that publish, which
\* suppressed the second entry.
C37_RepeatedNameSuppressed ==
  \A r \in Reqs :
    RepeatedNameAlone(r) =>
      /\ Cardinality(EntriesOf(r)) = 1
      /\ \A k \in EntriesOf(r) :
           /\ pubLog[k].idx = 1
           /\ pubLog[k].reason = ChainReason(payload[r].Deployments[1])
           /\ cooldown[pubLog[k].name] = <<FormatInt(pubLog[k].time)>>

\* such an evaluation has ended; the two entries had different reasons, the
\* queue holds the one job of the first, and the handler has answered
C37_Witness ==
  \E r \in Reqs :
    /\ RepeatedNameAlone(r)
    /\ hpc[r] = "done"
    /\ ChainReason(payload[r].Deployments[1]) # ChainReason(payload[r].Deployments[2])
    /\ Len(queue) = 1
    /\ queue[1].reason = ChainReason(payload[r].Deployments[1])

\* C38: the payload a cost evaluation works on is the one its handler
\* decoded and does not change while the evaluation runs; the job that the
\* evaluation publishes has the namespace and the cluster_info of that
\* payload and, as its deployment, the entry of that payload the loop is
\* at, whatever cost:latest holds at the time of the publish.
C38_CostJobFromOwnPayload ==
  [][\A r \in Reqs :
       /\ (kind[r] = "cost" /\ tpc[r] # "none") => payload'[r] = payload[r]
       /\ (kind[r] = "cost" /\ tpc[r] = "push" /\ tpc'[r] = "setcd") =>
            LET own == MarshalCostPayload(payload[r])
                job == Head(queue')
            IN  /\ Len(queue') = Len(queue) + 1
                /\ job.namespace = own.namespace
                /\ job.cluster_info = own.cluster_info
                /\ job.deployments = own.deployments[idx[r]]
    ]_vars

\* a later cost ingest replaced cost:latest and its evaluation published;
\* after that the evaluation of the earlier ingest published a job, which
\* has the cluster_info of the earlier payload, not the one stored
C38_Witness ==
  \E i, j \in 1..Len(pubLog) :
    /\ j < i
    /\ pubLog[i].kind = "cost"
    /\ pubLog[j].kind = "cost"
    /\ pubLog[j].req > pubLog[i].req
    /\ Len(queue) = Len(pubLog)
    /\ costLatest = <<MarshalCostPayload(payload[pubLog[j].req])>>
    /\ queue[Len(queue) - i + 1].cluster_info
         = ClusterInfoJSON(payload[pubLog[i].req].ClusterInfo)
    /\ queue[Len(queue) - i + 1].cluster_info # costLatest[1].cluster_info

\* position of a goroutine within one loop iteration, counted from its end
StepsLeft(pc) ==
  IF pc \in {"loop", "floop"} THEN 3
  ELSE IF pc \in {"push", "fpush"} THEN 2
  ELSE IF pc = "setcd" THEN 1
  ELSE 0

\* an upper bound on the steps goroutine r still has to take
Measure(r) ==
  IF tpc[r] \in {"none", "done"} THEN 0
  ELSE 3 * (Len(payload[r].Deployments) - idx[r]) + StepsLeft(tpc[r])

\* C39: every evaluation goroutine, cost or forecast, that was started
\* reaches its end, when goroutines are scheduled fairly and every store
\* command returns; each of its steps brings it closer to the end (it never
\* goes back to a deployment or repeats a command), and it ends with all
\* deployments visited or at the loop top after its deadline.
C39_EvaluationsTerminate ==
  /\ \A r \in Reqs : (tpc[r] # "none") ~> (tpc[r] = "done")
  /\ [][\A r \in Reqs :
          (tpc[r] # "none" /\ TaskStep(r)) =>
            /\ Measure(r)' < Measure(r)
            /\ tpc'[r] = "done" =>
                 \/ idx'[r] = Len(payload[r].Deployments) + 1
                 \/ expired[r] /\ AtLoopTop(r)
       ]_vars

\* a cost evaluation has ended after visiting all its deployments, and a
\* forecast evaluation has ended at the loop top, its deadline passed,
\* before its last entry
C39_Witness ==
  \E r, q \in Reqs :
    /\ kind[r] = "cost" /\ kind[q] = "forecast"
    /\ tpc[r] = "done" /\ tpc[q] = "done"
    /\ ~expired[r]
    /\ idx[r] = Len(payload[r].Deployments) + 1
    /\ pubLog # <<>>
    /\ expired[q]
    /\ idx[q] <= Len(payload[q].Deployments)

====
